---------------------------- MODULE Spec2Model ----------------------------
(***************************************************************************)
(* Firecrawl Explorer (firecrawl_explorer.py): the gateway client          *)
(* (FirecrawlClient.scrape_url, crawl_url, check_crawl_status, map_url),   *)
(* the job poller (FirecrawlClient.wait_for_crawl_completion) and the      *)
(* export archive (FirecrawlClient.save_to_file and the save dialog,       *)
(* listing and deletion of FirecrawlExplorer).                             *)
(***************************************************************************)
EXTENDS Integers, Sequences, FiniteSets, TLC

VARIABLES
    \* ---- gateway client: one invocation of a client operation
    g_pc,        \* "idle" | "request" | "respond" | "done"
    g_op,        \* the operation invoked
    g_sent,      \* HTTP requests sent by the current invocation
    g_resp,      \* the HTTP response received
    g_out,       \* what the invocation gave its caller
    \* ---- job poller: one run of wait_for_crawl_completion
    p_pc,        \* "idle" | "loop" | "call" | "sleep" | "returned" | "raised" | "timeout"
    p_max,       \* max_attempts
    p_source,    \* the status source: the response to the i-th status call
    p_attempts,  \* attempts
    p_calls,     \* status calls made so far
    p_sleeps,    \* sleeps made so far
    p_since,     \* sleeps made since the last status call
    p_seen,      \* remote statuses observed so far, in order
    p_out,       \* what the run gave its caller
    \* ---- export archive and the session's export dialogs
    fs,          \* the files on disk: path -> [bytes, mtime]
    dirs,        \* the directories that exist
    clock,       \* the time of the last write
    s_pc,        \* "menu" | "browsing" | "results": where the session is
    browse_cat,  \* the category being browsed ("all": every category, "none": at the menu)
    files,       \* the listing _browse_exports built last
    hist,        \* the saves that returned a path, in order
    ndel,        \* records deleted so far
    failed,      \* filesystem failures met by the last archive operation
    reported,    \* those of them the operation reported
    unlinked,    \* the files the last archive operation removed
    search_term,     \* the term of the last search ("": none)
    search_results,  \* the entries that search kept
    \* ---- the session's settings
    api_url,           \* self.api_url
    api_key,           \* self.api_key
    client,            \* what self.client was constructed with
    exports_base_dir,  \* self.exports_base_dir
    default_save_dir,  \* self.default_save_dir
    export_dirs,       \* self.export_dirs: category -> directory
    nset,              \* settings updates made so far
    \* ---- the session loop (run) and the handler it called
    running,     \* self.running
    r_pc,        \* "menu" | "handler" | "pause" | "run_pause" | "terminated"
    r_action,    \* the handler run() called
    r_stage,     \* the stage of the handler that runs next
    r_count,     \* handlers called so far
    r_closed,    \* the input stream has reached its end
    r_event,     \* the input the last step read: "none", "line", "q", "eof", "interrupt"
    r_failure,   \* the failure the last step met ("none": none)
    r_reported,  \* whether the last step printed an error
    \* ---- one JSON file: saved by save_to_file, read back by _view_file
    j_pc,        \* "idle" | "saved" | "viewed"
    j_data,      \* the data given to save_to_file
    j_format,    \* the format_type given to save_to_file
    j_text,      \* the text of the file
    j_parsed,    \* what json.loads gave for that text
    \* ---- one scrape, crawl or map action of the session
    a_pc,        \* "idle" | "invoke" | "wait" | "confirm" | "interrupted"
    a_op,        \* the client operation the action starts with
    a_before,    \* the files and directories when the action started
    \* ---- two sessions that save into one archive
    x_locked,    \* the sessions take an advisory lock around each save
    x_pc,        \* per session: "off" | "idle" | "resolved"
    x_save       \* per session: the save in progress and the path it resolved

gatewayVars == <<g_pc, g_op, g_sent, g_resp, g_out>>
pollerVars == <<p_pc, p_max, p_source, p_attempts, p_calls, p_sleeps, p_since, p_seen, p_out>>
archiveVars ==
    <<fs, dirs, clock, s_pc, browse_cat, files, hist, ndel, failed, reported,
      search_term, search_results, unlinked>>
settingsVars ==
    <<api_url, api_key, client, exports_base_dir, default_save_dir, export_dirs, nset>>
sessionVars ==
    <<running, r_pc, r_action, r_stage, r_count, r_closed, r_event, r_failure, r_reported>>
codecVars == <<j_pc, j_data, j_format, j_text, j_parsed>>
actionVars == <<a_pc, a_op, a_before>>
raceVars == <<x_locked, x_pc, x_save>>

\* ------------------------------------------------------------------ bounds
\* Largest number of handlers the session loop calls.
MaxActions == 2
\* Largest number of items of a list inside saved data.
MaxItems == 2
\* Largest max_attempts a run of the poller is started with.
MaxAttempts == 3
\* Cap on the requests one gateway invocation may send (the code sends one).
MaxRequests == 3
\* Saves and deletions a session makes.
MaxOps == 3

\* ------------------------------------------------------- HTTP, as consumed
\* HTTP status codes the remote service answers with.
Codes == {200, 201, 404, 500}
\* The "status" field of a response body.
Statuses == {"pending", "completed", "failed"}
\* A parsed response body: its status field, and its data field when present.
Bodies == [status : Statuses, hasData : BOOLEAN]
Responses == [code : Codes, body : Bodies]
NoBody == [status |-> "pending", hasData |-> FALSE]
NoResponse == [code |-> 0, body |-> NoBody]
NoOutcome == [kind |-> "none", part |-> "none", code |-> 0, body |-> NoBody]

\* A value returned to the caller: the whole parsed body, or its data field.
Returned(part, resp) ==
    [kind |-> "return", part |-> part, code |-> resp.code, body |-> resp.body]
\* Exception(f"... failed with status code {status_code}: {text}")
Raised(resp) ==
    [kind |-> "raise", part |-> "text", code |-> resp.code, body |-> resp.body]

\* ---------------------------------------------------------- gateway client
Ops == {"scrape", "crawl", "status", "map"}

\* The test every operation applies to response.status_code.
IsSuccess(code) == code = 200

\* response.json().get("data", {}) for scrape, response.json() for the others.
scrape_url(resp) == IF IsSuccess(resp.code) THEN Returned("data", resp) ELSE Raised(resp)
crawl_url(resp) == IF IsSuccess(resp.code) THEN Returned("body", resp) ELSE Raised(resp)
check_crawl_status_ignoring_code(resp) == Returned("body", resp)
check_crawl_status(resp) == IF IsSuccess(resp.code) THEN Returned("body", resp) ELSE Raised(resp)
map_url(resp) == IF IsSuccess(resp.code) THEN Returned("body", resp) ELSE Raised(resp)

Outcome(op, resp) ==
    CASE op = "scrape" -> scrape_url(resp)
      [] op = "crawl" -> crawl_url(resp)
      [] op = "status" -> check_crawl_status(resp)
      [] OTHER -> map_url(resp)

\* Where an invocation goes once the response is in: every operation returns
\* or raises, none sends its request again.
AfterResponseRetry(op, resp) == IF IsSuccess(resp.code) THEN "done" ELSE "request"
AfterResponse(op, resp) == "done"

GwInvoke(op) ==
    /\ g_pc = "idle"
    /\ g_pc' = "request"
    /\ g_op' = op
    /\ g_sent' = 0
    /\ g_resp' = NoResponse
    /\ g_out' = NoOutcome
    /\ UNCHANGED <<pollerVars, archiveVars, settingsVars, sessionVars, codecVars,
                   actionVars, raceVars>>

\* requests.post(...) / requests.get(...)
GwRequest(resp) ==
    /\ g_pc = "request"
    /\ g_sent < MaxRequests
    /\ g_sent' = g_sent + 1
    /\ g_resp' = resp
    /\ g_pc' = "respond"
    /\ UNCHANGED <<g_op, g_out>>
    /\ UNCHANGED <<pollerVars, archiveVars, settingsVars, sessionVars, codecVars,
                   actionVars, raceVars>>

\* if response.status_code == 200: return ... else: raise ...
GwRespond ==
    /\ g_pc = "respond"
    /\ g_pc' = AfterResponse(g_op, g_resp)
    /\ g_out' = Outcome(g_op, g_resp)
    /\ UNCHANGED <<g_op, g_sent, g_resp>>
    /\ UNCHANGED <<pollerVars, archiveVars, settingsVars, sessionVars, codecVars,
                   actionVars, raceVars>>

\* The caller takes the outcome; the client holds no state between calls.
GwDone ==
    /\ g_pc = "done"
    /\ g_pc' = "idle"
    /\ UNCHANGED <<g_op, g_sent, g_resp, g_out>>
    /\ UNCHANGED <<pollerVars, archiveVars, settingsVars, sessionVars, codecVars,
                   actionVars, raceVars>>

NextGateway ==
    \/ \E op \in Ops : GwInvoke(op)
    \/ \E resp \in Responses : GwRequest(resp)
    \/ GwRespond
    \/ GwDone

\* --------------------------------------------------------------- job poller
\* What the status source answers: a body with a status, or an HTTP failure.
Answer(code, status) == [code |-> code, body |-> [status |-> status, hasData |-> FALSE]]
PollAnswers ==
    {Answer(200, "pending"), Answer(200, "completed"), Answer(200, "failed"),
     Answer(500, "pending")}
\* A status source answers the i-th call of a run with source[i].
ScriptLen == MaxAttempts + 1
Sources == [1..ScriptLen -> PollAnswers]
NoSource == [i \in 1..ScriptLen |-> Answer(200, "pending")]

\* while attempts < max_attempts
LoopConditionInclusive(attempts, max) == attempts <= max
LoopConditionShort(attempts, max) == attempts + 1 < max
LoopCondition(attempts, max) == attempts < max

\* if status.get("status") == "completed"
IsTerminalStatus(status) == status = "completed"

PollTerminal == {"returned", "raised", "timeout"}

\* wait_for_crawl_completion(crawl_id, poll_interval, max_attempts): attempts = 0
PollStart(max, source) ==
    /\ p_pc = "idle"
    /\ p_pc' = "loop"
    /\ p_max' = max
    /\ p_source' = source
    /\ p_attempts' = 0
    /\ p_calls' = 0
    /\ p_sleeps' = 0
    /\ p_since' = 0
    /\ p_seen' = <<>>
    /\ p_out' = NoOutcome
    /\ UNCHANGED <<gatewayVars, archiveVars, settingsVars, sessionVars, codecVars,
                   actionVars, raceVars>>

\* The loop test, and the raise Exception("Crawl did not complete ...") after it.
PollLoop ==
    /\ p_pc = "loop"
    /\ p_pc' = IF LoopCondition(p_attempts, p_max) THEN "call" ELSE "timeout"
    /\ UNCHANGED <<p_max, p_source, p_attempts, p_calls, p_sleeps, p_since, p_seen, p_out>>
    /\ UNCHANGED <<gatewayVars, archiveVars, settingsVars, sessionVars, codecVars,
                   actionVars, raceVars>>

\* status = self.check_crawl_status(crawl_id), the completion test, attempts += 1
PollCall ==
    /\ p_pc = "call"
    /\ LET out == check_crawl_status(p_source[p_calls + 1])
       IN  /\ p_calls' = p_calls + 1
           /\ p_since' = 0
           /\ IF out.kind = "raise"
              THEN /\ p_pc' = "raised"
                   /\ p_out' = out
                   /\ UNCHANGED <<p_attempts, p_seen>>
              ELSE /\ p_seen' = Append(p_seen, out.body.status)
                   /\ IF IsTerminalStatus(out.body.status)
                      THEN /\ p_pc' = "returned"
                           /\ p_out' = out
                           /\ UNCHANGED p_attempts
                      ELSE /\ p_pc' = "sleep"
                           /\ p_attempts' = p_attempts + 1
                           /\ UNCHANGED p_out
    /\ UNCHANGED <<p_max, p_source, p_sleeps>>
    /\ UNCHANGED <<gatewayVars, archiveVars, settingsVars, sessionVars, codecVars,
                   actionVars, raceVars>>

\* time.sleep(poll_interval)
PollSleep ==
    /\ p_pc = "sleep"
    /\ p_sleeps' = p_sleeps + 1
    /\ p_since' = p_since + 1
    /\ p_pc' = "loop"
    /\ UNCHANGED <<p_max, p_source, p_attempts, p_calls, p_seen, p_out>>
    /\ UNCHANGED <<gatewayVars, archiveVars, settingsVars, sessionVars, codecVars,
                   actionVars, raceVars>>

PollStep == PollLoop \/ PollCall \/ PollSleep

NextPoller ==
    \/ \E max \in 0..MaxAttempts, source \in Sources : PollStart(max, source)
    \/ PollLoop
    \/ PollCall
    \/ PollSleep

\* ----------------------------------------------------------- export archive
\* A filename is a sequence of tokens: letters, a counter suffix "_<n>", or a
\* dotted part (".md", ".json", ".meta", ...). String operations act on tokens.
RecognizedExtensions == {".md", ".html", ".txt", ".json"}
DottedTokens == RecognizedExtensions \cup {".meta"}

Categories == {"scrapes", "crawls", "maps", "docs", "custom"}
\* The order of the keys of self.export_dirs.
CategoryOrder == <<"scrapes", "crawls", "maps", "docs", "custom">>

\* os.path.join(directory, name)
join(directory, name) == directory \o "/" \o name

Path(dir, name) == [dir |-> dir, name |-> name]
NoPath == Path("", <<>>)

\* filename.endswith((".md", ".html", ".txt", ".json"))
EndsWithRecognizedExtension(filename) ==
    Len(filename) > 0 /\ filename[Len(filename)] \in RecognizedExtensions

\* The extension save_to_file appends for a format.
ExtensionFor(format_type) ==
    CASE format_type = "markdown" -> ".md"
      [] format_type = "html" -> ".html"
      [] format_type = "json" -> ".json"
      [] OTHER -> ".txt"

\* An extension appended to every filename.
AddExtensionAlways(filename, format_type) == Append(filename, ExtensionFor(format_type))

\* if not filename.endswith(...): filename += <extension of format_type>
AddExtension(filename, format_type) ==
    IF EndsWithRecognizedExtension(filename)
    THEN filename
    ELSE Append(filename, ExtensionFor(format_type))

\* os.path.splitext: split at the last dot, unless that dot starts the name.
splitext(name) ==
    LET dots == {i \in 1..Len(name) : name[i] \in DottedTokens}
        last == IF dots = {} THEN 0 ELSE CHOOSE i \in dots : \A j \in dots : j <= i
    IN  IF last <= 1
        THEN <<name, <<>>>>
        ELSE <<SubSeq(name, 1, last - 1), SubSeq(name, last, Len(name))>>

\* f"{os.path.splitext(path)[0]}.meta.json"
meta_path(path) == Path(path.dir, splitext(path.name)[1] \o <<".meta", ".json">>)

\* filename.endswith(".meta.json")
EndsWithMetaJson(name) ==
    /\ Len(name) >= 2
    /\ name[Len(name) - 1] = ".meta"
    /\ name[Len(name)] = ".json"

\* f"_{counter}"
CounterSuffix(counter) == "_" \o ToString(counter)

\* What a file holds. A document is the value that was serialised: page text, a
\* result mapping (with the export metadata merged into it or not), or the
\* mapping the save dialog writes as a sidecar.
Document(t, id, merged, description, tags, export_date, source_url, format) ==
    [t |-> t, id |-> id, merged |-> merged, description |-> description, tags |-> tags,
     export_date |-> export_date, source_url |-> source_url, format |-> format]
NoDocument == Document("none", "", FALSE, "", <<>>, 0, "", "")
PageText(id) == Document("str", id, FALSE, "", <<>>, 0, "", "")
ResultMapping(id) == Document("dict", id, FALSE, "", <<>>, 0, "", "")

\* json.dump(data, f, indent=2) for a mapping saved as json, f.write(str(data)) otherwise.
Serialize(data, format_type) ==
    [enc |-> IF format_type = "json" /\ data.t = "dict" THEN "json" ELSE "str",
     doc |-> data]
\* json.load succeeds on what json.dump wrote, and raises on any other text.
IsJson(bytes) == bytes.enc = "json"

File(bytes, mtime) == [bytes |-> bytes, mtime |-> mtime]
Write(files_, path, bytes, now) == (path :> File(bytes, now)) @@ files_
Remove(files_, path) == [q \in (DOMAIN files_) \ {path} |-> files_[q]]
Exists(files_, path) == path \in DOMAIN files_

\* ---- FirecrawlClient.save_to_file
\* counter = 1
FirstCounterZero == 1 - 1
FirstCounter == 1

\* while os.path.exists(full_path): new_filename = f"{base_name}_{counter}{extension}"
RECURSIVE NextUnused(_, _, _, _, _)
NextUnused(files_, dir, base_name, extension, counter) ==
    LET new_filename == base_name \o <<CounterSuffix(counter)>> \o extension
    IN  IF Exists(files_, Path(dir, new_filename))
        THEN NextUnused(files_, dir, base_name, extension, counter + 1)
        ELSE new_filename

\* A save that takes the name given, whether or not it is in use.
ResolveWithoutCheck(files_, dir, filename) == Path(dir, filename)

\* A path numbered by the saves made so far, whatever names are free.
ResolvePathBySaveCount(files_, dir, filename) ==
    IF hist = <<>>
    THEN Path(dir, filename)
    ELSE LET parts == splitext(filename)
         IN  Path(dir, parts[1] \o <<CounterSuffix(Len(hist))>> \o parts[2])

\* The path the content is written to: the name itself when it is unused.
ResolvePath(files_, dir, filename) ==
    IF Exists(files_, Path(dir, filename))
    THEN LET parts == splitext(filename)
         IN  Path(dir, NextUnused(files_, dir, parts[1], parts[2], FirstCounter))
    ELSE Path(dir, filename)

\* save_to_file(data, directory, filename, format_type): the files afterwards
\* and the path returned.
save_to_file(files_, data, directory, filename, format_type, now) ==
    LET full_path == ResolvePath(files_, directory, AddExtension(filename, format_type))
    IN  [fs |-> Write(files_, full_path, Serialize(data, format_type), now),
         path |-> full_path]

\* ---- FirecrawlExplorer._handle_save_dialog
\* What the user answers to the description and tags prompts ("" and no tags:
\* nothing was added, or the user declined to add metadata).
NoMetadata == [description |-> "", tags |-> <<>>]
HasMetadata(metadata) == metadata.description # "" \/ metadata.tags # <<>>

\* data["metadata"].update({"export_info": metadata, "export_date": ..., "source_url": url})
MergeMetadata(data, metadata, now, url) ==
    [data EXCEPT !.merged = TRUE, !.description = metadata.description,
                 !.tags = metadata.tags, !.export_date = now, !.source_url = url]

\* A sidecar for every save that has metadata.
WritesSidecarAlways(data, metadata, format_type) == HasMetadata(metadata)

MergesInline(data, metadata, format_type) ==
    HasMetadata(metadata) /\ format_type = "json" /\ data.t = "dict"
WritesSidecar(data, metadata, format_type) ==
    HasMetadata(metadata) /\ (format_type # "json" \/ data.t # "dict")

\* The mapping written to <base>.meta.json
Sidecar(metadata, now, url, format_type) ==
    Document("sidecar", "", FALSE, metadata.description, metadata.tags, now, url,
             format_type)

\* What an action hands to the save dialog: data, url and format_type.
Payload(data, url, format_type) == [data |-> data, url |-> url, format_type |-> format_type]

\* One run of the save dialog. fault: the write that the filesystem refuses
\* ("none", "content" or "sidecar").
handle_save_dialog(payload, save_dir, filename, metadata, fault) ==
    /\ s_pc = "menu"
    /\ clock + ndel + nset < MaxOps
    /\ fault = "sidecar" => WritesSidecar(payload.data, metadata, payload.format_type)
    /\ LET now == clock + 1
           data == IF MergesInline(payload.data, metadata, payload.format_type)
                   THEN MergeMetadata(payload.data, metadata, now, payload.url)
                   ELSE payload.data
           saved == save_to_file(fs, data, save_dir, filename, payload.format_type, now)
           sidecar == WritesSidecar(data, metadata, payload.format_type)
           metadata_file == meta_path(saved.path)
       IN  IF fault = "content"
           THEN \* open(full_path, "w") raises: "Error saving file"
                /\ failed' = {"save"}
                /\ reported' = {"save"}
                /\ dirs' = dirs \cup {save_dir}
                /\ UNCHANGED <<fs, clock, hist>>
           ELSE /\ clock' = now
                /\ dirs' = dirs \cup {save_dir}
                /\ hist' = Append(hist, [dir |-> save_dir, filename |-> filename,
                                         format_type |-> payload.format_type,
                                         stored |-> saved.path])
                /\ IF sidecar /\ fault = "sidecar"
                   THEN \* open(metadata_file, "w") raises after the content is written
                        /\ fs' = saved.fs
                        /\ failed' = {"save"}
                        /\ reported' = {"save"}
                   ELSE /\ fs' = IF sidecar
                                 THEN Write(saved.fs, metadata_file,
                                            [enc |-> "json",
                                             doc |-> Sidecar(metadata, now, payload.url,
                                                             payload.format_type)],
                                            now)
                                 ELSE saved.fs
                        /\ failed' = {}
                        /\ reported' = {}
    /\ unlinked' = {}
    /\ UNCHANGED <<s_pc, browse_cat, files, ndel, search_term, search_results>>
    /\ UNCHANGED <<gatewayVars, pollerVars, settingsVars, sessionVars, codecVars, raceVars>>

\* The save dialog run on its own, outside a scrape, crawl or map action.
SaveDialog(payload, save_dir, filename, metadata, fault) ==
    /\ handle_save_dialog(payload, save_dir, filename, metadata, fault)
    /\ UNCHANGED actionVars

\* ---- FirecrawlExplorer._browse_exports: the listing
\* The entry built for one content file; its metadata is what json.load gives
\* for <base>.meta.json, when that file exists and parses.
FileInfo(files_, path, category) ==
    LET sidecar == meta_path(path)
        loaded == Exists(files_, sidecar) /\ IsJson(files_[sidecar].bytes)
    IN  [name |-> path.name, path |-> path, category |-> category,
         modified |-> files_[path].mtime, has_metadata |-> loaded,
         metadata |-> IF loaded THEN files_[sidecar].bytes.doc ELSE NoDocument]

\* The files of one directory that the listing keeps.
Listed(files_, dir) ==
    {path \in DOMAIN files_ : path.dir = dir /\ ~EndsWithMetaJson(path.name)}

\* for filename in os.listdir(path): ... files.append(file_info); a missing
\* directory (FileNotFoundError) gives nothing.
ListDirectory(files_, dirs_, category) ==
    IF export_dirs[category] \in dirs_
    THEN {FileInfo(files_, path, category) : path \in Listed(files_, export_dirs[category])}
    ELSE {}

\* The categories a browse choice covers.
Browsed(choice) == IF choice = "all" THEN Categories ELSE {choice}

\* files.sort(key=lambda x: x["modified"], reverse=True)
RECURSIVE SortNewestFirst(_)
SortNewestFirst(infos) ==
    IF infos = {}
    THEN <<>>
    ELSE LET newest == CHOOSE x \in infos : \A y \in infos : y.modified <= x.modified
         IN  <<newest>> \o SortNewestFirst(infos \ {newest})

Listing(files_, dirs_, choice) ==
    SortNewestFirst(UNION {ListDirectory(files_, dirs_, c) : c \in Browsed(choice)})

\* The failures the listing meets and passes over: "except FileNotFoundError"
\* around os.listdir, "except Exception: pass" around json.load.
ListingFailures(files_, dirs_, choice) ==
    {"listdir" : c \in {c \in Browsed(choice) : export_dirs[c] \notin dirs_}}
    \cup {"sidecar" : path \in
            {path \in UNION {Listed(files_, export_dirs[c]) :
                                c \in {c \in Browsed(choice) : export_dirs[c] \in dirs_}} :
                /\ Exists(files_, meta_path(path))
                /\ ~IsJson(files_[meta_path(path)].bytes)}}

\* manage_exports -> _browse_exports(category): build the listing; with no
\* files the browse returns at once ("No exports found in this category").
Browse(choice) ==
    /\ s_pc = "menu"
    /\ LET listing == Listing(fs, dirs, choice)
       IN  /\ files' = listing
           /\ s_pc' = IF listing = <<>> THEN "menu" ELSE "browsing"
           /\ browse_cat' = IF listing = <<>> THEN "none" ELSE choice
           /\ failed' = ListingFailures(fs, dirs, choice)
           /\ reported' = {}
    /\ search_term' = ""
    /\ search_results' = <<>>
    /\ unlinked' = {}
    /\ UNCHANGED <<fs, dirs, clock, hist, ndel>>
    /\ UNCHANGED <<gatewayVars, pollerVars, settingsVars, sessionVars, codecVars,
                   actionVars, raceVars>>

\* action "r": return to the categories
BrowseReturn ==
    /\ s_pc = "browsing"
    /\ s_pc' = "menu"
    /\ files' = <<>>
    /\ browse_cat' = "none"
    /\ failed' = {}
    /\ reported' = {}
    /\ search_term' = ""
    /\ search_results' = <<>>
    /\ unlinked' = {}
    /\ UNCHANGED <<fs, dirs, clock, hist, ndel>>
    /\ UNCHANGED <<gatewayVars, pollerVars, settingsVars, sessionVars, codecVars,
                   actionVars, raceVars>>

\* A delete that leaves the sidecar where it is.
DeleteFilesKeepingSidecar(files_, path, fault) ==
    IF fault = "content" \/ ~Exists(files_, path) THEN files_ ELSE Remove(files_, path)

\* A delete that removes the sidecar before it tries the content file.
DeleteFilesSidecarFirst(files_, path, fault) ==
    LET kept == IF Exists(files_, meta_path(path))
                THEN Remove(files_, meta_path(path))
                ELSE files_
    IN  IF fault = "content" \/ ~Exists(kept, path) THEN kept ELSE Remove(kept, path)

\* The files after os.remove(file_path) and the conditional os.remove(meta_path).
\* fault: the removal that the filesystem refuses ("none", "content", "sidecar").
DeleteFiles(files_, path, fault) ==
    IF fault = "content" \/ ~Exists(files_, path)
    THEN files_
    ELSE LET removed == Remove(files_, path)
         IN  IF Exists(removed, meta_path(path)) /\ fault # "sidecar"
             THEN Remove(removed, meta_path(path))
             ELSE removed

\* Whether the try block of the delete raised ("Could not delete file").
DeleteRaises(files_, path, fault) ==
    \/ fault = "content"
    \/ ~Exists(files_, path)
    \/ fault = "sidecar" /\ Exists(Remove(files_, path), meta_path(path))

\* action "d": delete files[file_index] after confirmation, then browse again.
BrowseDelete(file_num, confirm, fault) ==
    /\ s_pc = "browsing"
    /\ LET valid == file_num >= 1 /\ file_num <= Len(files)
           path == IF valid THEN files[file_num].path ELSE NoPath
           acts == valid /\ confirm
           after == IF acts THEN DeleteFiles(fs, path, fault) ELSE fs
           raises == acts /\ DeleteRaises(fs, path, fault)
           listing == Listing(after, dirs, browse_cat)
       IN  /\ acts => clock + ndel + nset < MaxOps
           /\ fault # "none" => acts
           /\ fault = "sidecar" => Exists(fs, meta_path(path))
           /\ fs' = after
           /\ ndel' = IF acts /\ ~Exists(after, path) THEN ndel + 1 ELSE ndel
           /\ files' = listing
           /\ s_pc' = IF listing = <<>> THEN "menu" ELSE "browsing"
           /\ browse_cat' = IF listing = <<>> THEN "none" ELSE browse_cat
           /\ failed' = (IF raises THEN {"remove"} ELSE {})
                            \cup ListingFailures(after, dirs, browse_cat)
           /\ reported' = IF raises THEN {"remove"} ELSE {}
           /\ unlinked' = (DOMAIN fs) \ (DOMAIN after)
    /\ search_term' = ""
    /\ search_results' = <<>>
    /\ UNCHANGED <<dirs, clock, hist>>
    /\ UNCHANGED <<gatewayVars, pollerVars, settingsVars, sessionVars, codecVars,
                   actionVars, raceVars>>

\* Between the listing and the user's choice another process removes a listed
\* file: os.remove(file_path) will then find no file.
Vanish(path) ==
    /\ s_pc = "browsing"
    /\ \E i \in DOMAIN files : files[i].path = path
    /\ Exists(fs, path)
    /\ fs' = Remove(fs, path)
    /\ failed' = {}
    /\ reported' = {}
    /\ unlinked' = {}
    /\ UNCHANGED <<dirs, clock, s_pc, browse_cat, files, hist, ndel, search_term,
                   search_results>>
    /\ UNCHANGED <<gatewayVars, pollerVars, settingsVars, sessionVars, codecVars,
                   actionVars, raceVars>>

\* ---- FirecrawlExplorer._browse_exports: action "s", the search
\* A string as the sequence of its words; a search term is a whole number of
\* words, and "in" is tested word by word.
Words(text) ==
    CASE text = "quarterly report" -> <<"quarterly", " ", "report">>
      [] text = "https://example.com" -> <<"https://", "example", ".com">>
      [] text = "" -> <<>>
      [] OTHER -> <<text>>

\* str.lower()
lower(words) ==
    [i \in DOMAIN words |->
        CASE words[i] = "RESEARCH" -> "research"
          [] words[i] = "Quarterly" -> "quarterly"
          [] OTHER -> words[i]]

\* needle in haystack
IsSubstring(needle, haystack) ==
    \E i \in 0..(Len(haystack) - Len(needle)) :
        SubSeq(haystack, i + 1, i + Len(needle)) = needle

\* "description" in metadata (and so for "tags" and "source_url"): the mapping
\* the save dialog wrote as a sidecar has these keys, a result mapping has not.
HasSidecarKeys(metadata) == metadata.t = "sidecar"

\* Whether the search keeps file_info: the term is in the file name, or in the
\* description, a tag or the source URL of the metadata the listing attached.
SearchMatches(file_info, term) ==
    LET needle == lower(Words(term))
        metadata == file_info.metadata
    IN  \/ IsSubstring(needle, lower(file_info.name))
        \/ /\ file_info.has_metadata
           /\ HasSidecarKeys(metadata)
           /\ \/ IsSubstring(needle, lower(Words(metadata.description)))
              \/ \E t \in DOMAIN metadata.tags :
                    IsSubstring(needle, lower(Words(metadata.tags[t])))
              \/ IsSubstring(needle, lower(Words(metadata.source_url)))

\* action "s": with matches, show them (_display_and_manage_files); with
\* none, "No matching files found" and browse again.
BrowseSearch(term) ==
    /\ s_pc = "browsing"
    /\ LET results == SelectSeq(files, LAMBDA file_info : SearchMatches(file_info, term))
           listing == Listing(fs, dirs, browse_cat)
       IN  /\ search_term' = term
           /\ search_results' = results
           /\ IF results # <<>>
              THEN /\ s_pc' = "results"
                   /\ UNCHANGED <<files, browse_cat, failed, reported>>
              ELSE /\ files' = listing
                   /\ s_pc' = IF listing = <<>> THEN "menu" ELSE "browsing"
                   /\ browse_cat' = IF listing = <<>> THEN "none" ELSE browse_cat
                   /\ failed' = ListingFailures(fs, dirs, browse_cat)
                   /\ reported' = {}
    /\ unlinked' = {}
    /\ UNCHANGED <<fs, dirs, clock, hist, ndel>>
    /\ UNCHANGED <<gatewayVars, pollerVars, settingsVars, sessionVars, codecVars,
                   actionVars, raceVars>>

\* action "r" of the search results: back through _browse_exports to the menu
ResultsReturn ==
    /\ s_pc = "results"
    /\ s_pc' = "menu"
    /\ files' = <<>>
    /\ browse_cat' = "none"
    /\ search_term' = ""
    /\ search_results' = <<>>
    /\ failed' = {}
    /\ reported' = {}
    /\ unlinked' = {}
    /\ UNCHANGED <<fs, dirs, clock, hist, ndel>>
    /\ UNCHANGED <<gatewayVars, pollerVars, settingsVars, sessionVars, codecVars,
                   actionVars, raceVars>>

\* ---- the inputs the archive is driven with
Filenames == {<<"a">>, <<"a", ".meta", ".json">>}
Payloads ==
    {Payload(PageText("markdown text"), "https://example.com", "markdown"),
     Payload(PageText("html text"), "https://example.com", "html"),
     Payload(ResultMapping("result"), "https://example.com", "json")}
Metadatas == {NoMetadata, [description |-> "quarterly report", tags |-> <<"research">>]}
SaveDirs == {export_dirs["scrapes"]}
Faults == {"none", "content", "sidecar"}
BrowseChoices == {"scrapes", "crawls", "all"}

NextArchive ==
    \/ \E payload \in Payloads, save_dir \in SaveDirs, filename \in Filenames,
          metadata \in Metadatas, fault \in Faults :
            SaveDialog(payload, save_dir, filename, metadata, fault)
    \/ \E choice \in BrowseChoices : Browse(choice)
    \/ BrowseReturn
    \/ \E file_num \in 1..(Len(files) + 1), confirm \in BOOLEAN, fault \in Faults :
            BrowseDelete(file_num, confirm, fault)

\* ---- the inputs the naming of saved files is driven with: filenames with
\* and without an extension, saved as each of the formats the session offers
NamingFilenames ==
    {<<"a">>, <<"a", ".json">>, <<"a", ".md">>, <<"a", ".MD">>, <<"a", ".meta">>}
NamingPayloads ==
    {Payload(PageText("page"), "https://example.com", format_type) :
        format_type \in {"markdown", "html", "text", "json"}}

NextNaming ==
    \E payload \in NamingPayloads, save_dir \in SaveDirs, filename \in NamingFilenames :
        SaveDialog(payload, save_dir, filename, NoMetadata, "none")

\* ---- the inputs the search is driven with: saves of every content type
\* under one name, with and without metadata, then searches of the listing
SearchFilenames == {<<"a">>}
SearchTerms == {"research", "quarterly", "RESEARCH", "unrelated"}

NextSearch ==
    \/ \E payload \in Payloads, save_dir \in SaveDirs, filename \in SearchFilenames,
          metadata \in Metadatas :
            SaveDialog(payload, save_dir, filename, metadata, "none")
    \/ \E choice \in BrowseChoices : Browse(choice)
    \/ BrowseReturn
    \/ \E term \in SearchTerms : BrowseSearch(term)
    \/ ResultsReturn

\* ---- FirecrawlExplorer._setup_export_directories and settings
DEFAULT_API_URL == "http://localhost:3002"

\* FirecrawlClient(api_url, api_key if api_key else None)
Client(url, key) == [api_url |-> url, api_key |-> key]

\* {"scrapes": os.path.join(self.exports_base_dir, "scrapes"), ...}
ExportDirsOf(base) == [c \in Categories |-> join(base, c)]

\* A set-up that refuses a base directory that exists (no exist_ok).
setup_export_directories_strict(files_, dirs_, base, export_dirs_, fault) ==
    IF base \in dirs_
    THEN [fs |-> files_, dirs |-> dirs_, export_dirs |-> export_dirs_, raised |-> TRUE]
    ELSE [fs |-> files_,
          dirs |-> dirs_ \cup {base} \cup {join(base, c) : c \in Categories},
          export_dirs |-> ExportDirsOf(base),
          raised |-> FALSE]

\* A set-up that empties the directories it finds.
setup_export_directories_afresh(files_, dirs_, base, export_dirs_, fault) ==
    [fs |-> [path \in {q \in DOMAIN files_ : q.dir \notin {join(base, c) : c \in Categories}}
                |-> files_[path]],
     dirs |-> dirs_ \cup {base} \cup {join(base, c) : c \in Categories},
     export_dirs |-> ExportDirsOf(base),
     raised |-> FALSE]

\* _setup_export_directories(): os.makedirs(base, exist_ok=True), the new
\* self.export_dirs, then os.makedirs(directory, exist_ok=True) for each in
\* order. fault: the directory whose creation the filesystem refuses ("base",
\* a category, or "none"); a directory that exists is not created, so it
\* cannot be refused. Gives the files, the directories, self.export_dirs and
\* whether the call raised.
setup_export_directories(files_, dirs_, base, export_dirs_, fault) ==
    IF fault = "base" /\ base \notin dirs_
    THEN [fs |-> files_, dirs |-> dirs_, export_dirs |-> export_dirs_, raised |-> TRUE]
    ELSE LET new_dirs == ExportDirsOf(base)
             refused == {i \in DOMAIN CategoryOrder :
                            /\ CategoryOrder[i] = fault
                            /\ new_dirs[CategoryOrder[i]] \notin dirs_}
             made == IF refused = {}
                     THEN DOMAIN CategoryOrder
                     ELSE {i \in DOMAIN CategoryOrder : \A r \in refused : i < r}
         IN  [fs |-> files_,
              dirs |-> dirs_ \cup {base} \cup {new_dirs[CategoryOrder[i]] : i \in made},
              export_dirs |-> new_dirs,
              raised |-> refused # {}]

\* settings(), the user confirming the update. A failure of the set-up for a
\* new base (line 615) leaves settings() and is printed by run(); a failure of
\* the second set-up is printed by settings() itself.
Settings(new_api_url, new_api_key, new_exports_base, fault) ==
    /\ s_pc = "menu"
    /\ clock + ndel + nset < MaxOps
    /\ LET changed == new_exports_base # exports_base_dir
           first == IF changed
                    THEN setup_export_directories(fs, dirs, new_exports_base,
                                                  export_dirs, fault)
                    ELSE [fs |-> fs, dirs |-> dirs, export_dirs |-> export_dirs,
                          raised |-> FALSE]
           second == setup_export_directories(first.fs, first.dirs, new_exports_base,
                                              first.export_dirs, fault)
           last == IF first.raised THEN first ELSE second
       IN  /\ fault # "none" => last.raised
           /\ api_url' = new_api_url
           /\ api_key' = new_api_key
           /\ exports_base_dir' = new_exports_base
           /\ default_save_dir' = new_exports_base
           /\ client' = IF first.raised THEN client ELSE Client(new_api_url, new_api_key)
           /\ fs' = last.fs
           /\ dirs' = last.dirs
           /\ export_dirs' = last.export_dirs
           /\ failed' = IF last.raised THEN {"makedirs"} ELSE {}
           /\ reported' = IF last.raised THEN {"makedirs"} ELSE {}
    /\ nset' = nset + 1
    /\ unlinked' = {}
    /\ UNCHANGED <<clock, s_pc, browse_cat, files, hist, ndel, search_term, search_results>>
    /\ UNCHANGED <<gatewayVars, pollerVars, sessionVars, codecVars, actionVars, raceVars>>

\* ---- the archive with a listing that goes stale: saves under one name, then
\* deletes of entries whose file may be gone
StalePayloads == {payload \in Payloads : payload.format_type # "json"}

NextStale ==
    \/ \E payload \in StalePayloads, save_dir \in SaveDirs, filename \in SearchFilenames,
          metadata \in Metadatas :
            SaveDialog(payload, save_dir, filename, metadata, "none")
    \/ \E choice \in BrowseChoices : Browse(choice)
    \/ BrowseReturn
    \/ \E file_num \in 1..(Len(files) + 1), confirm \in BOOLEAN :
            BrowseDelete(file_num, confirm, "none")
    \/ \E path \in DOMAIN fs : Vanish(path)

\* ---- FirecrawlExplorer.help: the documentation saved on request
DocsFilename == <<"firecrawl_explorer_docs">>

\* save_to_file(full_docs, self.export_dirs["docs"], filename, "markdown");
\* fault "content": the write is refused ("Error saving documentation").
HelpSave(fault) ==
    /\ s_pc = "menu"
    /\ clock + ndel + nset < MaxOps
    /\ fault \in {"none", "content"}
    /\ LET now == clock + 1
           save_dir == export_dirs["docs"]
           saved == save_to_file(fs, PageText("documentation"), save_dir, DocsFilename,
                                 "markdown", now)
       IN  /\ dirs' = dirs \cup {save_dir}
           /\ IF fault = "content"
              THEN /\ failed' = {"save"}
                   /\ reported' = {"save"}
                   /\ UNCHANGED <<fs, clock, hist>>
              ELSE /\ fs' = saved.fs
                   /\ clock' = now
                   /\ hist' = Append(hist, [dir |-> save_dir, filename |-> DocsFilename,
                                            format_type |-> "markdown",
                                            stored |-> saved.path])
                   /\ failed' = {}
                   /\ reported' = {}
    /\ unlinked' = {}
    /\ UNCHANGED <<s_pc, browse_cat, files, ndel, search_term, search_results>>
    /\ UNCHANGED <<gatewayVars, pollerVars, settingsVars, sessionVars, codecVars,
                   actionVars, raceVars>>

\* ---- FirecrawlExplorer._browse_exports: action "v", _view_file
\* open(file_path).read(); a file that is gone gives "Could not read file".
\* Then browse again.
BrowseView(file_num) ==
    /\ s_pc = "browsing"
    /\ LET valid == file_num >= 1 /\ file_num <= Len(files)
           missing == valid /\ ~Exists(fs, files[file_num].path)
           listing == Listing(fs, dirs, browse_cat)
       IN  /\ files' = listing
           /\ s_pc' = IF listing = <<>> THEN "menu" ELSE "browsing"
           /\ browse_cat' = IF listing = <<>> THEN "none" ELSE browse_cat
           /\ failed' = (IF missing THEN {"read"} ELSE {})
                            \cup ListingFailures(fs, dirs, browse_cat)
           /\ reported' = IF missing THEN {"read"} ELSE {}
    /\ search_term' = ""
    /\ search_results' = <<>>
    /\ unlinked' = {}
    /\ UNCHANGED <<fs, dirs, clock, hist, ndel>>
    /\ UNCHANGED <<gatewayVars, pollerVars, settingsVars, sessionVars, codecVars,
                   actionVars, raceVars>>

\* ---- the inputs the whole explorer is driven with: every menu action that
\* touches the archive or the settings
ApiUrls == {DEFAULT_API_URL, "https://api.firecrawl.dev"}
ApiKeys == {"", "fc-key"}
Roots == {"exports", "archive"}
SetupFaults == {"none", "base"} \cup Categories
ExplorerPayloads == {payload \in Payloads : payload.format_type = "markdown"}
ExplorerTerms == {"research", "unrelated"}

NextExplorer ==
    \/ \E payload \in ExplorerPayloads, save_dir \in SaveDirs,
          filename \in SearchFilenames, metadata \in Metadatas, fault \in Faults :
            SaveDialog(payload, save_dir, filename, metadata, fault)
    \/ \E choice \in BrowseChoices : Browse(choice)
    \/ BrowseReturn
    \/ \E file_num \in 1..(Len(files) + 1), confirm \in BOOLEAN, fault \in Faults :
            BrowseDelete(file_num, confirm, fault)
    \/ \E file_num \in 1..(Len(files) + 1) : BrowseView(file_num)
    \/ \E term \in ExplorerTerms : BrowseSearch(term)
    \/ ResultsReturn
    \/ \E new_api_url \in ApiUrls, new_api_key \in ApiKeys, new_exports_base \in Roots,
          fault \in SetupFaults :
            Settings(new_api_url, new_api_key, new_exports_base, fault)
    \/ \E fault \in Faults : HelpSave(fault)

\* ------------------------------------------------------------ session loop
\* A handler is a sequence of stages. A prompt stage reads input; its guard
\* says what catches the EOFError of a closed stream. A work stage may meet
\* failures, each with the guard that catches it: "try" (an except clause of
\* the handler that prints the error), "swallow" (an except clause that
\* prints nothing) or "none" (the exception leaves the handler).
Guarded(failure, guard) == [failure |-> failure, guard |-> guard]
PromptStage(guard) == [kind |-> "prompt", guard |-> guard, failures |-> {}]
WorkStage(failures) == [kind |-> "work", guard |-> "none", failures |-> failures]

Handlers ==
    [scrape |-> <<PromptStage("none"),
                  WorkStage({Guarded("gateway", "try")}),
                  PromptStage("try"),
                  WorkStage({Guarded("storage", "try")})>>,
     crawl |-> <<PromptStage("none"),
                 WorkStage({Guarded("numeric", "try")}),
                 WorkStage({Guarded("gateway", "try"), Guarded("no id", "return")}),
                 WorkStage({Guarded("timeout", "try"), Guarded("gateway", "try")}),
                 PromptStage("try"),
                 WorkStage({Guarded("storage", "try")})>>,
     map |-> <<PromptStage("none"),
               WorkStage({Guarded("numeric", "try")}),
               WorkStage({Guarded("gateway", "try")}),
               PromptStage("try"),
               WorkStage({Guarded("storage", "try")})>>,
     settings |-> <<PromptStage("none"),
                    WorkStage({Guarded("storage", "none")}),
                    WorkStage({Guarded("storage", "try")})>>,
     help |-> <<PromptStage("none"),
                WorkStage({Guarded("storage", "try")})>>,
     exports |-> <<WorkStage({Guarded("storage", "swallow")}),
                   PromptStage("none"),
                   WorkStage({Guarded("storage", "swallow")}),
                   PromptStage("none"),
                   WorkStage({Guarded("numeric", "try"), Guarded("storage", "try")})>>]

Actions == DOMAIN Handlers

\* Where run() goes without its "except Exception" clause: out of the loop.
run_except_interrupt_only(exception) == "terminated"

\* Where run() goes when an exception leaves a handler or the menu prompt:
\* except KeyboardInterrupt: running = False, break; except Exception: print,
\* then input().
run_except(exception) ==
    IF exception = "KeyboardInterrupt" THEN "terminated" ELSE "run_pause"

\* choice = Prompt.ask("Choose an option", ...) and the dispatch
RunChoose(event) ==
    /\ r_pc = "menu"
    /\ r_closed => event \in {"eof", "interrupt"}
    /\ r_event' = IF event \in Actions THEN "line" ELSE event
    /\ r_closed' = (r_closed \/ event = "eof")
    /\ r_failure' = "none"
    /\ IF event \in Actions
       THEN /\ r_count < MaxActions
            /\ r_pc' = "handler"
            /\ r_action' = event
            /\ r_stage' = 1
            /\ r_count' = r_count + 1
            /\ r_reported' = FALSE
       ELSE /\ r_pc' = CASE event = "q" -> "terminated"
                         [] event = "eof" -> run_except("EOFError")
                         [] event = "interrupt" -> run_except("KeyboardInterrupt")
            /\ r_reported' = (event = "eof" /\ r_pc' = "run_pause")
            /\ UNCHANGED <<r_action, r_stage, r_count>>
    /\ running' = (r_pc' # "terminated")
    /\ UNCHANGED <<gatewayVars, pollerVars, archiveVars, settingsVars, codecVars,
                   actionVars, raceVars>>

\* One stage of the handler. outcome: "ok", "eof" and "interrupt" (at any
\* stage: Ctrl+C), or one of the failures of the stage.
HandlerStage(outcome) ==
    /\ r_pc = "handler"
    /\ LET stage == Handlers[r_action][r_stage]
           last == r_stage = Len(Handlers[r_action])
           guard == IF outcome = "eof"
                    THEN stage.guard
                    ELSE IF \E g \in stage.failures : g.failure = outcome
                    THEN (CHOOSE g \in stage.failures : g.failure = outcome).guard
                    ELSE "none"
           goes_on == outcome = "ok" \/ guard = "swallow"
       IN  /\ outcome \in {"ok", "eof", "interrupt"}
                \/ \E g \in stage.failures : g.failure = outcome
           /\ outcome = "eof" => stage.kind = "prompt"
           /\ (outcome = "ok" /\ stage.kind = "prompt") => ~r_closed
           /\ r_event' = CASE outcome \in {"eof", "interrupt"} -> outcome
                           [] outcome = "ok" /\ stage.kind = "prompt" -> "line"
                           [] OTHER -> "none"
           /\ r_closed' = (r_closed \/ outcome = "eof")
           /\ r_failure' = IF outcome \in {"ok", "eof", "interrupt"} THEN "none" ELSE outcome
           /\ r_pc' = CASE goes_on -> IF last THEN "pause" ELSE "handler"
                        [] outcome = "interrupt" -> run_except("KeyboardInterrupt")
                        [] guard = "try" -> "pause"
                        [] guard = "return" -> "menu"
                        [] OTHER -> run_except("Exception")
           /\ r_stage' = IF goes_on /\ ~last THEN r_stage + 1 ELSE r_stage
           /\ r_reported' = /\ outcome \notin {"ok", "interrupt"}
                            /\ guard # "swallow"
                            /\ r_pc' # "terminated"
    /\ running' = (r_pc' # "terminated")
    /\ UNCHANGED <<r_action, r_count>>
    /\ UNCHANGED <<gatewayVars, pollerVars, archiveVars, settingsVars, codecVars,
                   actionVars, raceVars>>

\* "Press Enter to return to the main menu...": input() with "except
\* EOFError: pass"; a KeyboardInterrupt leaves the handler.
HandlerPause(event) ==
    /\ r_pc = "pause"
    /\ event \in {"line", "eof", "interrupt"}
    /\ event = "line" => ~r_closed
    /\ r_event' = event
    /\ r_closed' = (r_closed \/ event = "eof")
    /\ r_failure' = "none"
    /\ r_reported' = FALSE
    /\ r_pc' = IF event = "interrupt" THEN run_except("KeyboardInterrupt") ELSE "menu"
    /\ running' = (r_pc' # "terminated")
    /\ UNCHANGED <<r_action, r_stage, r_count>>
    /\ UNCHANGED <<gatewayVars, pollerVars, archiveVars, settingsVars, codecVars,
                   actionVars, raceVars>>

\* "Press Enter to continue..." in run(): input() with "except (EOFError,
\* KeyboardInterrupt): self.running = False; break"
RunPause(event) ==
    /\ r_pc = "run_pause"
    /\ event \in {"line", "eof", "interrupt"}
    /\ event = "line" => ~r_closed
    /\ r_event' = event
    /\ r_closed' = (r_closed \/ event = "eof")
    /\ r_failure' = "none"
    /\ r_reported' = FALSE
    /\ r_pc' = IF event = "line" THEN "menu" ELSE "terminated"
    /\ running' = (r_pc' # "terminated")
    /\ UNCHANGED <<r_action, r_stage, r_count>>
    /\ UNCHANGED <<gatewayVars, pollerVars, archiveVars, settingsVars, codecVars,
                   actionVars, raceVars>>

MenuEvents == Actions \cup {"q", "eof", "interrupt"}
Outcomes == {"ok", "eof", "interrupt", "gateway", "timeout", "storage", "numeric", "no id"}
PauseEvents == {"line", "eof", "interrupt"}

NextSession ==
    \/ \E event \in MenuEvents : RunChoose(event)
    \/ \E outcome \in Outcomes : HandlerStage(outcome)
    \/ \E event \in PauseEvents : HandlerPause(event)
    \/ \E event \in PauseEvents : RunPause(event)

\* ------------------------------------------------- JSON text of a saved file
\* A value as Python holds it: a str, a number, True / False / None, a list,
\* or a dict (a sequence of pairs with distinct str keys, in insertion order).
Json(k, s, items) == [k |-> k, s |-> s, items |-> items]
JString(s) == Json("string", s, <<>>)
JNumber(s) == Json("number", s, <<>>)
JLiteral(s) == Json("literal", s, <<>>)
JList(items) == Json("list", "", items)
JPair(key, value) == Json("pair", key, <<value>>)
JDict(pairs) == Json("dict", "", pairs)

\* The text of a file, as a sequence of tokens.
Token(t, s) == [t |-> t, s |-> s]
Punct(s) == Token("punct", s)

\* How JSON spells True, False and None, and back.
JsonSpelling(s) ==
    CASE s = "True" -> "true" [] s = "False" -> "false" [] s = "None" -> "null"
      [] OTHER -> s
PythonSpelling(s) ==
    CASE s = "true" -> "True" [] s = "false" -> "False" [] s = "null" -> "None"
      [] OTHER -> s

\* str(data): Python's own notation, with '...' strings and True / False / None.
RECURSIVE str(_)
str(v) ==
    LET RECURSIVE items(_)
        items(vs) ==
            IF vs = <<>>
            THEN <<>>
            ELSE str(Head(vs))
                    \o (IF Len(vs) > 1 THEN <<Punct(",")>> \o items(Tail(vs)) ELSE <<>>)
    IN  CASE v.k = "dict" -> <<Punct("{")>> \o items(v.items) \o <<Punct("}")>>
          [] v.k = "list" -> <<Punct("[")>> \o items(v.items) \o <<Punct("]")>>
          [] v.k = "pair" -> <<Token("pystring", v.s), Punct(":")>> \o str(v.items[1])
          [] v.k = "string" -> <<Token("pystring", v.s)>>
          [] OTHER -> <<Token(v.k, v.s)>>

\* A dump that writes Python's notation.
dump_in_python_notation(v) == str(v)

\* json.dump(data, f, indent=2, ensure_ascii=False): "..." strings kept as
\* they are, true / false / null (white space is not a token).
RECURSIVE dump(_)
dump(v) ==
    LET RECURSIVE items(_)
        items(vs) ==
            IF vs = <<>>
            THEN <<>>
            ELSE dump(Head(vs))
                    \o (IF Len(vs) > 1 THEN <<Punct(",")>> \o items(Tail(vs)) ELSE <<>>)
    IN  CASE v.k = "dict" -> <<Punct("{")>> \o items(v.items) \o <<Punct("}")>>
          [] v.k = "list" -> <<Punct("[")>> \o items(v.items) \o <<Punct("]")>>
          [] v.k = "pair" -> <<Token("string", v.s), Punct(":")>> \o dump(v.items[1])
          [] v.k = "literal" -> <<Token("literal", JsonSpelling(v.s))>>
          [] OTHER -> <<Token(v.k, v.s)>>

\* What a parse gives: the value and the tokens after it, or a failure
\* (json.JSONDecodeError).
Parsed(value, rest) == [ok |-> TRUE, value |-> value, rest |-> rest]
NoParse == [ok |-> FALSE, value |-> JLiteral("None"), rest |-> <<>>]

\* The JSON grammar: value, then the members of an object or the elements of
\* an array up to the closing bracket. A later pair with the key of an
\* earlier one replaces its value, as in a Python dict.
PutPair(pairs, pair) ==
    IF \E i \in DOMAIN pairs : pairs[i].s = pair.s
    THEN [i \in DOMAIN pairs |-> IF pairs[i].s = pair.s THEN pair ELSE pairs[i]]
    ELSE Append(pairs, pair)

RECURSIVE parse_value(_), parse_items(_, _, _)
parse_value(tokens) ==
    IF tokens = <<>>
    THEN NoParse
    ELSE LET head == Head(tokens)
             rest == Tail(tokens)
         IN  CASE head.t \in {"string", "number"} -> Parsed(Json(head.t, head.s, <<>>), rest)
               [] head.t = "literal" /\ head.s \in {"true", "false", "null"} ->
                    Parsed(JLiteral(PythonSpelling(head.s)), rest)
               [] head = Punct("{") -> parse_items("dict", <<>>, rest)
               [] head = Punct("[") -> parse_items("list", <<>>, rest)
               [] OTHER -> NoParse

parse_items(kind, done, tokens) ==
    LET closing == IF kind = "dict" THEN Punct("}") ELSE Punct("]")
    IN  IF tokens = <<>>
        THEN NoParse
        ELSE IF Head(tokens) = closing /\ done = <<>>
        THEN Parsed(Json(kind, "", done), Tail(tokens))
        ELSE LET keyed == /\ kind = "dict"
                          /\ Len(tokens) >= 2
                          /\ tokens[1].t = "string"
                          /\ tokens[2] = Punct(":")
                 item == IF kind = "list"
                         THEN parse_value(tokens)
                         ELSE IF keyed
                         THEN parse_value(Tail(Tail(tokens)))
                         ELSE NoParse
                 value == IF kind = "list"
                          THEN item.value
                          ELSE JPair(tokens[1].s, item.value)
                 items == IF kind = "list" THEN Append(done, value) ELSE PutPair(done, value)
             IN  IF ~item.ok \/ item.rest = <<>>
                 THEN NoParse
                 ELSE IF Head(item.rest) = closing
                 THEN Parsed(Json(kind, "", items), Tail(item.rest))
                 ELSE IF Head(item.rest) = Punct(",") /\ Len(item.rest) >= 2
                         /\ item.rest[2] # closing
                 THEN parse_items(kind, items, Tail(item.rest))
                 ELSE NoParse

\* json.loads(content): one value and nothing after it.
loads(text) ==
    LET parsed == parse_value(text)
    IN  IF parsed.ok /\ parsed.rest = <<>> THEN parsed ELSE NoParse

\* save_to_file, lines 281-285: what is written for data and format_type.
FileText(data, format_type) ==
    IF format_type = "json" /\ data.k = "dict" THEN dump(data) ELSE str(data)

\* save_to_file(data, directory, filename, format_type) on a new file
CodecSave(data, format_type) ==
    /\ j_pc = "idle"
    /\ j_pc' = "saved"
    /\ j_data' = data
    /\ j_format' = format_type
    /\ j_text' = FileText(data, format_type)
    /\ UNCHANGED j_parsed
    /\ UNCHANGED <<gatewayVars, pollerVars, archiveVars, settingsVars, sessionVars,
                   actionVars, raceVars>>

\* _view_file: content = f.read(); for a name that ends in .json,
\* json.loads(content), and the text itself on json.JSONDecodeError.
CodecView ==
    /\ j_pc = "saved"
    /\ j_pc' = "viewed"
    /\ j_parsed' = IF ExtensionFor(j_format) = ".json" THEN loads(j_text) ELSE NoParse
    /\ UNCHANGED <<j_data, j_format, j_text>>
    /\ UNCHANGED <<gatewayVars, pollerVars, archiveVars, settingsVars, sessionVars,
                   actionVars, raceVars>>

\* ---- the data the codec is driven with
Scalars == {JString("a"), JString("caf\\u00e9"), JNumber("1"), JLiteral("True"),
            JLiteral("None")}
RECURSIVE SeqsUpTo(_, _)
SeqsUpTo(set, n) ==
    IF n = 0
    THEN {<<>>}
    ELSE LET shorter == SeqsUpTo(set, n - 1)
         IN  shorter \cup {Append(q, x) : q \in shorter, x \in set}
Lists == {JList(items) : items \in SeqsUpTo(Scalars, MaxItems)}
Inner == Scalars \cup Lists \cup {JDict(<<>>)} \cup {JDict(<<JPair("id", x)>>) : x \in Scalars}
Mappings ==
    {JDict(<<>>)}
        \cup {JDict(<<JPair(key, x)>>) : key \in {"status", "data"}, x \in Inner}
        \cup {JDict(<<JPair("status", x), JPair("data", y)>>) : x \in Scalars, y \in Inner}
CodecData == Mappings \cup Lists
CodecFormats == {"json", "markdown"}

NextCodec ==
    \/ \E data \in CodecData, format_type \in CodecFormats : CodecSave(data, format_type)
    \/ CodecView

\* ------------------------------------- a scrape, crawl or map action, end to end
\* scrape_url(), crawl_url() and map_url() of FirecrawlExplorer: the client
\* call, for a crawl the wait for completion, then the save dialog on the
\* user's confirmation. The client call and the wait are those of the gateway
\* client and the job poller above.
ActionOps == {"scrape", "crawl", "map"}

\* The process is inside requests.post / requests.get or time.sleep.
AtBlockingPoint ==
    \/ a_pc = "invoke" /\ g_pc = "request"
    \/ a_pc = "wait" /\ p_pc \in {"call", "sleep"}

\* What the handler hands to the save dialog: the page for a scrape, the
\* final status for a crawl, the links mapping for a map.
ActionPayload(op) ==
    CASE op = "scrape" -> Payload(PageText("markdown text"), "https://example.com", "markdown")
      [] op = "crawl" -> Payload(ResultMapping("final_status"), "https://example.com", "json")
      [] OTHER -> Payload(ResultMapping("links_data"), "https://example.com", "json")

\* Where the handler goes when the client call has returned or raised: a
\* crawl that was initiated waits for its completion, a scrape or a map asks
\* whether to save, and an exception is printed ("Error: ...").
AfterCall(op, out) ==
    IF out.kind = "raise"
    THEN "idle"
    ELSE IF op = "crawl" THEN "wait" ELSE "confirm"

\* A crawl handler that saves what it has and then goes on waiting.
AfterSaveKeepsWaiting(op) == IF op = "crawl" THEN "wait" ELSE "idle"

\* Where the handler goes after the save dialog: to its end.
AfterSave(op) == "idle"

\* The user chooses scrape, crawl or map at the menu and answers the prompts.
ActionStart(op) ==
    /\ a_pc = "idle"
    /\ s_pc = "menu"
    /\ g_pc = "idle"
    /\ p_pc = "idle"
    /\ clock + ndel + nset < MaxOps
    /\ a_pc' = "invoke"
    /\ a_op' = op
    /\ a_before' = [fs |-> fs, dirs |-> dirs]
    /\ UNCHANGED <<gatewayVars, pollerVars, archiveVars, settingsVars, sessionVars,
                   codecVars, raceVars>>

\* self.client.scrape_url(url, params), crawl_url(...), map_url(...)
ActionInvoke ==
    /\ a_pc = "invoke"
    /\ GwInvoke(a_op)

\* The request of the call, and its answer.
ActionRequest(resp) ==
    /\ a_pc = "invoke"
    /\ GwRequest(resp)

ActionRespond ==
    /\ a_pc = "invoke"
    /\ GwRespond

\* The handler takes what the client call gave.
ActionReturn ==
    /\ a_pc = "invoke"
    /\ g_pc = "done"
    /\ a_pc' = AfterCall(a_op, g_out)
    /\ g_pc' = "idle"
    /\ UNCHANGED <<g_op, g_sent, g_resp, g_out, a_op, a_before>>
    /\ UNCHANGED <<pollerVars, archiveVars, settingsVars, sessionVars, codecVars, raceVars>>

\* final_status = self.client.wait_for_crawl_completion(crawl_id)
ActionWait(source) ==
    /\ a_pc = "wait"
    /\ PollStart(MaxAttempts, source)

ActionPoll ==
    /\ a_pc = "wait"
    /\ PollStep

\* The handler takes what the wait gave: the final status, or an exception
\* that it prints.
ActionWaited ==
    /\ a_pc = "wait"
    /\ p_pc \in PollTerminal
    /\ a_pc' = IF p_pc = "returned" THEN "confirm" ELSE "idle"
    /\ p_pc' = "idle"
    /\ UNCHANGED <<p_max, p_source, p_attempts, p_calls, p_sleeps, p_since, p_seen, p_out>>
    /\ UNCHANGED <<a_op, a_before>>
    /\ UNCHANGED <<gatewayVars, archiveVars, settingsVars, sessionVars, codecVars, raceVars>>

\* Confirm.ask("Do you want to save ...") answered yes: the save dialog.
ActionSave(save_dir, filename, metadata, fault) ==
    /\ a_pc = "confirm"
    /\ handle_save_dialog(ActionPayload(a_op), save_dir, filename, metadata, fault)
    /\ a_pc' = AfterSave(a_op)
    /\ UNCHANGED <<a_op, a_before>>

\* ... answered no.
ActionDecline ==
    /\ a_pc = "confirm"
    /\ a_pc' = "idle"
    /\ UNCHANGED <<a_op, a_before>>
    /\ UNCHANGED <<gatewayVars, pollerVars, archiveVars, settingsVars, sessionVars,
                   codecVars, raceVars>>

\* The process is interrupted while it is blocked: a KeyboardInterrupt is no
\* Exception, so it leaves the handler and ends run(); a kill ends the
\* process where it is.
ActionInterrupt ==
    /\ AtBlockingPoint
    /\ a_pc' = "interrupted"
    /\ UNCHANGED <<a_op, a_before>>
    /\ UNCHANGED <<gatewayVars, pollerVars, archiveVars, settingsVars, sessionVars,
                   codecVars, raceVars>>

\* ---- the inputs the actions are driven with
ActionResponses == {Answer(200, "pending"), Answer(500, "pending")}
\* Status sources: pending up to some call, then completed or an HTTP failure
\* from there on; and pending for ever.
ActionSources ==
    {[i \in 1..ScriptLen |-> IF i < n THEN Answer(200, "pending") ELSE last] :
        n \in 1..ScriptLen, last \in {Answer(200, "completed"), Answer(500, "pending")}}
        \cup {NoSource}
ActionFaults == {"none", "content"}

NextAction ==
    \/ \E op \in ActionOps : ActionStart(op)
    \/ ActionInvoke
    \/ \E resp \in ActionResponses : ActionRequest(resp)
    \/ ActionRespond
    \/ ActionReturn
    \/ \E source \in ActionSources : ActionWait(source)
    \/ ActionPoll
    \/ ActionWaited
    \/ \E save_dir \in SaveDirs, filename \in SearchFilenames, metadata \in Metadatas,
          fault \in ActionFaults :
            ActionSave(save_dir, filename, metadata, fault)
    \/ ActionDecline
    \/ ActionInterrupt

\* ------------------------------------------ two sessions saving concurrently
\* Two processes of the explorer share one archive directory. Each runs
\* save_to_file as the code does: first the existence checks that resolve the
\* path (lines 265-277), later the open(full_path, "w") that writes (lines
\* 280-285). A variant in which the sessions hold an advisory lock from the
\* check to the write is modelled by x_locked.
Sessions == {1, 2}
NoSave == [filename |-> <<>>, format_type |-> "", full_path |-> NoPath]

\* What session s saves: its own page.
SessionData(s) == PageText(IF s = 1 THEN "page of session 1" ELSE "page of session 2")

\* The two sessions start, with or without the lock.
RaceBegin(locked) ==
    /\ \A s \in Sessions : x_pc[s] = "off"
    /\ s_pc = "menu"
    /\ x_locked' = locked
    /\ x_pc' = [s \in Sessions |-> "idle"]
    /\ UNCHANGED x_save
    /\ UNCHANGED <<gatewayVars, pollerVars, archiveVars, settingsVars, sessionVars,
                   codecVars, actionVars>>

\* save_to_file up to the write: the extension, then os.path.exists(full_path)
\* until a path is unused. With the lock, no other session is between its
\* check and its write.
RaceResolve(s, filename, format_type) ==
    /\ x_pc[s] = "idle"
    /\ clock + ndel + nset + Cardinality({t \in Sessions : x_pc[t] = "resolved"}) < MaxOps
    /\ x_locked => \A t \in Sessions : x_pc[t] # "resolved"
    /\ x_pc' = [x_pc EXCEPT ![s] = "resolved"]
    /\ x_save' = [x_save EXCEPT ![s] =
                    [filename |-> filename, format_type |-> format_type,
                     full_path |-> ResolvePath(fs, export_dirs["scrapes"],
                                           AddExtension(filename, format_type))]]
    /\ UNCHANGED x_locked
    /\ UNCHANGED <<gatewayVars, pollerVars, archiveVars, settingsVars, sessionVars,
                   codecVars, actionVars>>

\* with open(full_path, "w") as f: f.write(str(data)); return full_path
RaceWrite(s) ==
    /\ x_pc[s] = "resolved"
    /\ LET now == clock + 1
           save == x_save[s]
       IN  /\ fs' = Write(fs, save.full_path, Serialize(SessionData(s), save.format_type), now)
           /\ clock' = now
           /\ hist' = Append(hist, [dir |-> save.full_path.dir, filename |-> save.filename,
                                    format_type |-> save.format_type,
                                    stored |-> save.full_path])
    /\ x_pc' = [x_pc EXCEPT ![s] = "idle"]
    /\ failed' = {}
    /\ reported' = {}
    /\ unlinked' = {}
    /\ UNCHANGED <<x_locked, x_save>>
    /\ UNCHANGED <<dirs, s_pc, browse_cat, files, ndel, search_term, search_results>>
    /\ UNCHANGED <<gatewayVars, pollerVars, settingsVars, sessionVars, codecVars, actionVars>>

\* ---- the inputs the two sessions are driven with
RaceFilenames == {<<"a">>, <<"b">>}
RaceFormats == {"markdown", "html"}

NextRace ==
    \/ \E locked \in BOOLEAN : RaceBegin(locked)
    \/ \E s \in Sessions, filename \in RaceFilenames, format_type \in RaceFormats :
            RaceResolve(s, filename, format_type)
    \/ \E s \in Sessions : RaceWrite(s)

\* ------------------------------------------------------------ specifications
vars ==
    <<gatewayVars, pollerVars, archiveVars, settingsVars, sessionVars, codecVars,
      actionVars, raceVars>>

InitGateway ==
    /\ g_pc = "idle"
    /\ g_op = "scrape"
    /\ g_sent = 0
    /\ g_resp = NoResponse
    /\ g_out = NoOutcome

InitPoller ==
    /\ p_pc = "idle"
    /\ p_max = 0
    /\ p_source = NoSource
    /\ p_attempts = 0
    /\ p_calls = 0
    /\ p_sleeps = 0
    /\ p_since = 0
    /\ p_seen = <<>>
    /\ p_out = NoOutcome

\* No file written or read yet.
InitCodec ==
    /\ j_pc = "idle"
    /\ j_data = JDict(<<>>)
    /\ j_format = "json"
    /\ j_text = <<>>
    /\ j_parsed = NoParse

\* run() is at the menu: no action has started.
InitAction ==
    /\ a_pc = "idle"
    /\ a_op = "scrape"
    /\ a_before = [fs |-> <<>>, dirs |-> {}]

\* One session, as the program is run: no second process.
InitRace ==
    /\ x_locked = FALSE
    /\ x_pc = [s \in Sessions |-> "off"]
    /\ x_save = [s \in Sessions |-> NoSave]

\* FirecrawlExplorer.__init__: self.running = True; run() starts at the menu.
InitSession ==
    /\ running = TRUE
    /\ r_pc = "menu"
    /\ r_action = "none"
    /\ r_stage = 0
    /\ r_count = 0
    /\ r_closed = FALSE
    /\ r_event = "none"
    /\ r_failure = "none"
    /\ r_reported = FALSE

\* FirecrawlExplorer.__init__: the default API URL, no key, the exports
\* directory next to the script.
InitSettings ==
    /\ api_url = DEFAULT_API_URL
    /\ api_key = ""
    /\ client = Client(DEFAULT_API_URL, "")
    /\ exports_base_dir = "exports"
    /\ default_save_dir = "exports"
    /\ export_dirs = ExportDirsOf("exports")
    /\ nset = 0

\* FirecrawlExplorer.__init__: the exports directory and its category
\* directories exist, and hold nothing yet.
InitArchive ==
    /\ fs = <<>>
    /\ dirs = {exports_base_dir} \cup {export_dirs[c] : c \in Categories}
    /\ clock = 0
    /\ s_pc = "menu"
    /\ browse_cat = "none"
    /\ files = <<>>
    /\ hist = <<>>
    /\ ndel = 0
    /\ failed = {}
    /\ reported = {}
    /\ search_term = ""
    /\ search_results = <<>>
    /\ unlinked = {}

Init ==
    /\ InitGateway /\ InitPoller /\ InitSettings /\ InitArchive /\ InitSession /\ InitCodec
    /\ InitAction /\ InitRace

Next == NextGateway \/ NextPoller \/ NextArchive \/ NextSearch \/ NextStale \/ NextExplorer
        \/ NextSession \/ NextCodec \/ NextAction \/ NextNaming \/ NextRace

\* The session runs one operation at a time; the client, the poller and the
\* archive share no state, so each is also specified on its own.
Spec == Init /\ [][Next]_vars
SpecGateway == Init /\ [][NextGateway]_vars
SpecPoller == Init /\ [][NextPoller]_vars
SpecArchive == Init /\ [][NextArchive]_vars
SpecSearch == Init /\ [][NextSearch]_vars
SpecNaming == Init /\ [][NextNaming]_vars
SpecStale == Init /\ [][NextStale]_vars
SpecExplorer == Init /\ [][NextExplorer]_vars
SpecSession == Init /\ [][NextSession]_vars
SpecCodec == Init /\ [][NextCodec]_vars
SpecAction == Init /\ [][NextAction]_vars
SpecRace == Init /\ [][NextRace]_vars
\* The session's single thread keeps running: a status call returns and a
\* sleep ends.
SpecPollerFair == SpecPoller /\ WF_vars(PollStep)

\* ------------------------------------------------------ job poller: claims
\* The source answers every call successfully and never with "completed".
NeverCompleted(source) ==
    \A i \in 1..ScriptLen :
        source[i].code = 200 /\ source[i].body.status # "completed"

\* The source answers "pending" to the first max-1 calls, "completed" to the max-th.
PendingThenCompleted(source, max) ==
    /\ \A i \in 1..(max - 1) : source[i] = Answer(200, "pending")
    /\ source[max] = Answer(200, "completed")

\* C3 as stated: with a source that never returns "completed", a run with
\* max_attempts >= 1 ends in the timeout error after exactly max_attempts
\* status calls and exactly max_attempts - 1 sleeps.
C3_TimeoutAfterMaxCallsAndMaxMinusOneSleeps ==
    (p_pc \in PollTerminal /\ p_max >= 1 /\ NeverCompleted(p_source))
        => (p_pc = "timeout" /\ p_calls = p_max /\ p_sleeps = p_max - 1)

\* C3 as amended: with a source that never returns "completed", a run with
\* max_attempts >= 1 ends in the timeout error after exactly max_attempts
\* status calls and exactly max_attempts sleeps (the run sleeps after every
\* status call, the last one included).
C3_TimeoutAfterMaxCallsAndMaxSleeps ==
    (p_pc \in PollTerminal /\ p_max >= 1 /\ NeverCompleted(p_source))
        => (p_pc = "timeout" /\ p_calls = p_max /\ p_sleeps = p_max)

C3_Witness ==
    p_pc = "timeout" /\ p_max >= 2 /\ NeverCompleted(p_source) /\ p_calls = p_max

\* C4: with a source that answers "pending" to the first max_attempts - 1
\* calls and "completed" to the max_attempts-th, the run returns that
\* completed status after exactly max_attempts status calls; it does not time
\* out on the last permitted attempt.
C4_CompletesOnLastAttempt ==
    (p_max >= 1 /\ PendingThenCompleted(p_source, p_max))
        => /\ p_pc # "timeout"
           /\ p_pc # "raised"
           /\ p_pc = "returned" =>
                /\ p_calls = p_max
                /\ p_out = Returned("body", p_source[p_max])
                /\ p_out.body.status = "completed"

C4_Witness ==
    /\ p_pc = "returned"
    /\ p_max >= 2
    /\ PendingThenCompleted(p_source, p_max)
    /\ p_calls = p_max

\* C5: whatever the source and whatever max_attempts (0 included), a run makes
\* at most max_attempts status calls, sleeps at most once between two
\* consecutive status calls, and terminates by returning or by failing.
C5_BoundedCallsOneSleepTerminates ==
    /\ [](p_calls <= p_max /\ p_since <= 1)
    /\ (p_pc = "loop") ~> (p_pc \in PollTerminal)

C5_Witness ==
    p_pc \in PollTerminal /\ p_max >= 2 /\ p_calls = p_max /\ p_sleeps >= 1

\* C6 as stated: once the run has observed the remote status "completed" or
\* "failed", or has timed out, it makes no further status call and no
\* further sleep.
ObservedTerminal ==
    \/ p_pc = "timeout"
    \/ \E i \in 1..Len(p_seen) : p_seen[i] \in {"completed", "failed"}

C6_TerminalStatusEndsPolling ==
    [][ObservedTerminal => (p_calls' = p_calls /\ p_sleeps' = p_sleeps)]_vars

\* C9: a status call that fails with a remote-service error ends the run at
\* once with that error: no sleep follows the failing call, and no further
\* status call or sleep is made afterwards.
C9_StatusErrorPropagatesAtOnce ==
    /\ [][(p_pc = "call" /\ ~IsSuccess(p_source[p_calls + 1].code))
            => /\ p_pc' = "raised"
               /\ p_out' = Raised(p_source[p_calls + 1])
               /\ p_sleeps' = p_sleeps]_vars
    /\ [][p_pc = "raised"
            => (p_pc' = "raised" /\ p_calls' = p_calls /\ p_sleeps' = p_sleeps)]_vars

C9_Witness ==
    p_pc = "raised" /\ p_calls >= 2 /\ p_out = Raised(p_source[p_calls])

\* --------------------------------------------------- gateway client: claims
\* A 2xx HTTP status.
SuccessAny2xx(code) == code >= 200 /\ code < 300

\* C7 as stated: an invocation raises an error carrying the status code and
\* the body whenever the HTTP status is not 2xx, and returns the parsed body
\* for every 2xx status.
C7_Non2xxRaisesEvery2xxReturns ==
    g_pc = "done" =>
        IF SuccessAny2xx(g_resp.code)
        THEN g_out.kind = "return" /\ g_out.body = g_resp.body
        ELSE g_out = Raised(g_resp)

\* C8: every invocation of a gateway operation sends exactly one HTTP request,
\* whether the response is a success or a failure.
C8_ExactlyOneRequest ==
    /\ g_sent <= 1
    /\ g_pc \in {"respond", "done"} => g_sent = 1

C8_Witness ==
    g_pc = "done" /\ g_out.kind = "raise" /\ g_sent = 1

\* --------------------------------------------------- export archive: claims
\* Every save so far went into the same directory with the same filename and
\* the same content type, and nothing was deleted.
SameSaves ==
    /\ Len(hist) >= 1
    /\ ndel = 0
    /\ \A k \in 1..Len(hist) :
        /\ hist[k].dir = hist[1].dir
        /\ hist[k].filename = hist[1].filename
        /\ hist[k].format_type = hist[1].format_type

\* base.ext for the first save, base_{k-1}.ext for the k-th.
KthName(full, k) ==
    IF k = 1
    THEN full
    ELSE SubSeq(full, 1, Len(full) - 1) \o <<"_" \o ToString(k - 1)>> \o <<full[Len(full)]>>

ContentFiles(dir) ==
    {path \in DOMAIN fs : path.dir = dir /\ fs[path].bytes.doc.t # "sidecar"}

\* C1: after N saves into one directory with the same filename and content
\* type (none deleted, the directory empty before), the directory holds N
\* distinct content files: the first save is stored as base.ext and the k-th
\* (k > 1) as base_{k-1}.ext, each still holding what that save wrote.
C1_KthSaveStoredAsBaseKMinusOne ==
    SameSaves =>
        LET full == AddExtension(hist[1].filename, hist[1].format_type)
        IN  /\ \A k \in 1..Len(hist) :
                /\ hist[k].stored = Path(hist[1].dir, KthName(full, k))
                /\ Exists(fs, hist[k].stored)
                /\ fs[hist[k].stored].mtime = k
            /\ Cardinality(ContentFiles(hist[1].dir)) = Len(hist)

C1_Witness ==
    SameSaves /\ Len(hist) >= 3 /\ Cardinality(ContentFiles(hist[1].dir)) = 3

\* C2 as stated: a save leaves every file that existed before it (content
\* file or sidecar) in place with the same bytes, counting the content write
\* and the sidecar write.
C2_SaveNeverOverwrites ==
    [][clock' # clock =>
        \A path \in DOMAIN fs :
            Exists(fs', path) /\ fs'[path].bytes = fs[path].bytes]_vars

\* C10 as stated: every filesystem failure an archive operation meets is
\* reported by that operation.
C10_NoHiddenFilesystemError == failed \subseteq reported

\* The metadata the record at path was saved with: merged into its content, or
\* in the sidecar the save dialog wrote next to it.
RecordMetadata(path) ==
    LET doc == fs[path].bytes.doc
        sidecar == meta_path(path)
    IN  IF doc.merged
        THEN doc
        ELSE IF Exists(fs, sidecar) /\ fs[sidecar].bytes.doc.t = "sidecar"
             THEN fs[sidecar].bytes.doc
             ELSE NoDocument

\* The term is, case-insensitively, a substring of the record's filename,
\* description, some tag or source URL.
TermIn(term, path) ==
    LET needle == lower(Words(term))
        metadata == RecordMetadata(path)
    IN  \/ IsSubstring(needle, lower(path.name))
        \/ IsSubstring(needle, lower(Words(metadata.description)))
        \/ \E t \in DOMAIN metadata.tags :
                IsSubstring(needle, lower(Words(metadata.tags[t])))
        \/ IsSubstring(needle, lower(Words(metadata.source_url)))

\* C11 as stated: a search returns exactly the listed records for which the
\* term is, case-insensitively, a substring of the filename, the description,
\* some tag or the source URL; so a record saved with tag "research" and
\* description "quarterly report" (whatever its content type, a JSON mapping
\* with the metadata merged inline included) is returned for "research" and
\* for "quarterly", and not for "unrelated".
C11_SearchReturnsExactlyMatchingRecords ==
    search_term # "" =>
        LET found == {search_results[i].path : i \in DOMAIN search_results}
            listed == {files[i].path : i \in DOMAIN files}
        IN  /\ found \subseteq listed
            /\ \A path \in listed : path \in found <=> TermIn(search_term, path)
            /\ \A path \in listed :
                (/\ RecordMetadata(path).tags = <<"research">>
                 /\ RecordMetadata(path).description = "quarterly report")
                    => /\ search_term \in {"research", "quarterly"} => path \in found
                       /\ search_term = "unrelated" => path \notin found

\* The sidecar of a stored content file: the same base name (the name without
\* its extension) with the suffix .meta.json, in the same directory.
SidecarOf(path) ==
    Path(path.dir, SubSeq(path.name, 1, Len(path.name) - 1) \o <<".meta", ".json">>)

\* C12: a confirmed delete of a listed record whose content file exists, with
\* no filesystem refusal, removes the content file and, if there is one, its
\* sidecar: afterwards neither file exists and the record is not in the new
\* listing; with or without a sidecar the delete raises no error.
C12_DeleteRemovesContentAndSidecar ==
    [][\A file_num \in 1..Len(files) :
        (BrowseDelete(file_num, TRUE, "none") /\ Exists(fs, files[file_num].path))
            => LET path == files[file_num].path
               IN  /\ ~Exists(fs', path)
                   /\ ~Exists(fs', SidecarOf(path))
                   /\ \A i \in DOMAIN files' : files'[i].path # path
                   /\ "remove" \notin failed']_vars

\* A delete has just removed a content file together with its sidecar.
C12_Witness ==
    /\ failed = {}
    /\ \E path \in unlinked : SidecarOf(path) \in unlinked

\* C13: a confirmed delete of a listed record whose content file does not
\* exist (it was removed after the listing was built) reports the failure and
\* leaves every file as it was, a sidecar with the same base name included.
C13_DeleteOfMissingFileChangesNothing ==
    [][\A file_num \in 1..Len(files), fault \in Faults :
        (BrowseDelete(file_num, TRUE, fault) /\ ~Exists(fs, files[file_num].path))
            => /\ fs' = fs
               /\ "remove" \in reported']_vars

\* A delete has just reported its failure, and the sidecar of a stored file
\* that is gone is still there.
C13_Witness ==
    /\ reported = {"remove"}
    /\ unlinked = {}
    /\ \E k \in DOMAIN hist :
        /\ ~Exists(fs, hist[k].stored)
        /\ Exists(fs, SidecarOf(hist[k].stored))
        /\ fs[SidecarOf(hist[k].stored)].bytes.doc.t = "sidecar"

\* Every file among paths is as it was before the step.
Untouched(paths) == \A path \in paths : Exists(fs, path) /\ fs'[path] = fs[path]

\* The document holds the supplied description and tags, the export date and
\* the source URL.
HoldsMetadata(doc, metadata, export_date, url) ==
    /\ doc.description = metadata.description
    /\ doc.tags = metadata.tags
    /\ doc.export_date = export_date
    /\ doc.source_url = url

\* C15: a save that the filesystem does not refuse persists supplied metadata
\* in exactly one place. For a JSON mapping saved as json the stored content
\* is the mapping with the metadata merged in, and no other file is written
\* (no sidecar). Otherwise the stored content is the data as given and the
\* sidecar <base of the stored path>.meta.json holds description, tags,
\* export date and source URL, and no third file is written. With no
\* metadata the stored content is the data as given and no other file is
\* written.
C15_MetadataInlineOrSidecar ==
    [][\A payload \in Payloads, save_dir \in SaveDirs, filename \in Filenames,
          metadata \in Metadatas :
        SaveDialog(payload, save_dir, filename, metadata, "none") =>
            LET stored == hist'[Len(hist')].stored
                content == fs'[stored].bytes.doc
                others == (DOMAIN fs') \ {stored}
                sidecar == SidecarOf(stored)
            IN  IF ~HasMetadata(metadata)
                THEN content = payload.data /\ Untouched(others)
                ELSE IF payload.format_type = "json" /\ payload.data.t = "dict"
                THEN /\ content.t = "dict"
                     /\ content.id = payload.data.id
                     /\ content.merged
                     /\ HoldsMetadata(content, metadata, clock', payload.url)
                     /\ Untouched(others)
                ELSE /\ content = payload.data
                     /\ Exists(fs', sidecar)
                     /\ IsJson(fs'[sidecar].bytes)
                     /\ fs'[sidecar].bytes.doc.t = "sidecar"
                     /\ HoldsMetadata(fs'[sidecar].bytes.doc, metadata, clock',
                                      payload.url)
                     /\ Untouched(others \ {sidecar})]_vars

\* Two saves with metadata have just been made, one merged inline and one
\* with a sidecar next to a stored path that the collision rule renamed.
C15_Witness ==
    /\ failed = {}
    /\ \E j, k \in DOMAIN hist :
        /\ Exists(fs, hist[j].stored)
        /\ fs[hist[j].stored].bytes.doc.merged
        /\ ~Exists(fs, SidecarOf(hist[j].stored))
        /\ Exists(fs, hist[k].stored)
        /\ hist[k].stored.name # AddExtension(hist[k].filename, hist[k].format_type)
        /\ Exists(fs, SidecarOf(hist[k].stored))
        /\ fs[SidecarOf(hist[k].stored)].bytes.doc.t = "sidecar"
        /\ fs[SidecarOf(hist[k].stored)].mtime = fs[hist[k].stored].mtime

\* The files of a category directory that are not sidecars: everything there
\* except the metadata mappings the save dialog wrote.
NonSidecarFiles(category) ==
    {path \in DOMAIN fs :
        path.dir = export_dirs[category] /\ fs[path].bytes.doc.t # "sidecar"}

\* The paths of a listing.
PathsOf(listing) == {listing[i].path : i \in DOMAIN listing}

\* C16 as stated: a listing of one category holds exactly the non-sidecar
\* files of that category's directory, once each; a listing of all categories
\* holds exactly the union of the five per-category listings; each entry
\* carries the metadata of its sidecar when it has one; and the entries are
\* in order of modification time, most recent first.
C16_ListReturnsNonSidecarFilesNewestFirst ==
    s_pc = "browsing" =>
        /\ PathsOf(files) = UNION {NonSidecarFiles(c) : c \in Browsed(browse_cat)}
        /\ Len(files) = Cardinality(PathsOf(files))
        /\ browse_cat = "all" =>
            PathsOf(files) = UNION {PathsOf(Listing(fs, dirs, c)) : c \in Categories}
        /\ \A i \in DOMAIN files :
            LET sidecar == SidecarOf(files[i].path)
            IN  /\ files[i].modified = fs[files[i].path].mtime
                /\ (Exists(fs, sidecar) /\ fs[sidecar].bytes.doc.t = "sidecar")
                    => /\ files[i].has_metadata
                       /\ files[i].metadata = fs[sidecar].bytes.doc
        /\ \A i, j \in DOMAIN files : i < j => files[i].modified >= files[j].modified

\* ------------------------------------------------- explorer session: claims
\* C14: a file disappears only in a step that is a delete the user selected
\* and confirmed, and then only the selected record's content file and its
\* sidecar; save, list, search, view, settings and help remove no file, and a
\* delete the user declines leaves every file as it was.
C14_FilesLeaveOnlyByConfirmedDelete ==
    [][/\ (\E path \in DOMAIN fs : ~Exists(fs', path))
            => \E file_num \in 1..Len(files), fault \in Faults :
                /\ BrowseDelete(file_num, TRUE, fault)
                /\ (DOMAIN fs) \ (DOMAIN fs')
                        \subseteq {files[file_num].path, SidecarOf(files[file_num].path)}
       /\ \A file_num \in 1..(Len(files) + 1), fault \in Faults :
            BrowseDelete(file_num, FALSE, fault) => fs' = fs]_vars

\* A confirmed delete has just removed a file, in a session that also saved
\* and updated its settings.
C14_Witness ==
    /\ unlinked # {}
    /\ nset >= 1
    /\ Len(hist) >= 1

\* C17 as stated: in every reachable state each category directory of the
\* current archive root exists (and is the directory the session uses for
\* that category), so it exists before any save, list or search runs.
C17_CategoryDirectoriesExist ==
    \A c \in Categories :
        /\ export_dirs[c] = join(exports_base_dir, c)
        /\ export_dirs[c] \in dirs

\* C18: in every reachable state, once directory initialization has run, a
\* second run raises no error and leaves the directories, the files and the
\* category map exactly as the first run left them, whatever the filesystem
\* would refuse to create; and a settings update that keeps the archive root,
\* when its directories exist, changes no directory and no file and reports
\* no error.
C18_SetupIsIdempotent ==
    /\ [](LET first == setup_export_directories(fs, dirs, exports_base_dir,
                                                export_dirs, "none")
          IN  /\ ~first.raised
              /\ \A fault \in SetupFaults :
                    setup_export_directories(first.fs, first.dirs, exports_base_dir,
                                             first.export_dirs, fault) = first)
    /\ [][\A new_api_url \in ApiUrls, new_api_key \in ApiKeys, fault \in SetupFaults :
            (/\ Settings(new_api_url, new_api_key, exports_base_dir, fault)
             /\ \A c \in Categories : join(exports_base_dir, c) \in dirs)
                => (dirs' = dirs /\ fs' = fs /\ failed' = {})]_vars

\* The settings were updated twice without error in an archive that holds
\* files: directory initialization has run three times over them.
C18_Witness ==
    /\ nset >= 2
    /\ failed = {}
    /\ fs # <<>>
    /\ \A c \in Categories : join(exports_base_dir, c) \in dirs

\* C19 as stated: a failure at any stage of a user action (gateway error,
\* polling timeout, storage error, invalid numeric input) is caught and
\* reported, and leaves the session running, at the "Press Enter" prompt or
\* at the menu; Enter at that prompt brings the session back to the menu; and
\* the loop terminates only on reading "q", the end of the input stream or an
\* interrupt.
C19_FailuresReportedSessionGoesOn ==
    /\ [][r_failure' # "none"
            => /\ r_reported'
               /\ running'
               /\ r_pc' \in {"pause", "run_pause", "menu"}]_vars
    /\ [][(r_pc \in {"pause", "run_pause"} /\ r_event' = "line")
            => (r_pc' = "menu" /\ running')]_vars
    /\ [][(r_pc # "terminated" /\ r_pc' = "terminated")
            => r_event' \in {"q", "eof", "interrupt"}]_vars
    /\ [](running <=> r_pc # "terminated")

\* What holds of it: no failure ends the session, and the loop terminates
\* only on "q", the end of the input stream or an interrupt.
SessionSurvivesFailures ==
    /\ [][r_failure' # "none" => (running' /\ r_pc' # "terminated")]_vars
    /\ [][(r_pc \in {"pause", "run_pause"} /\ r_event' = "line")
            => (r_pc' = "menu" /\ running')]_vars
    /\ [][(r_pc # "terminated" /\ r_pc' = "terminated")
            => r_event' \in {"q", "eof", "interrupt"}]_vars
    /\ [](running <=> r_pc # "terminated")

\* ---------------------------------------------------- JSON round trip: claims
\* Equality of two values, key by key and item by item.
RECURSIVE JsonEqual(_, _)
JsonEqual(a, b) ==
    /\ a.k = b.k
    /\ CASE a.k = "dict" ->
                /\ Len(a.items) = Len(b.items)
                /\ \A i \in DOMAIN a.items : \E j \in DOMAIN b.items :
                    /\ a.items[i].s = b.items[j].s
                    /\ JsonEqual(a.items[i].items[1], b.items[j].items[1])
         [] a.k = "list" ->
                /\ Len(a.items) = Len(b.items)
                /\ \A i \in DOMAIN a.items : JsonEqual(a.items[i], b.items[i])
         [] OTHER -> a.s = b.s

\* C20: a mapping saved with content type json, then read and parsed, gives
\* a value equal to the mapping saved, key by key and value by value.
C20_JsonRoundTrip ==
    (j_pc = "viewed" /\ j_format = "json" /\ j_data.k = "dict")
        => /\ j_parsed.ok
           /\ JsonEqual(j_parsed.value, j_data)

\* A mapping with two keys, one of them holding a list of MaxItems items, has
\* been saved as json and parsed back.
C20_Witness ==
    /\ j_pc = "viewed"
    /\ j_format = "json"
    /\ j_data.k = "dict"
    /\ Len(j_data.items) = 2
    /\ j_data.items[1].items[1].k = "literal"
    /\ j_data.items[2].items[1].k = "list"
    /\ Len(j_data.items[2].items[1].items) = MaxItems
    /\ j_parsed.ok

\* ------------------------------------------------ interrupted action: claims
\* C21: whenever the process is blocked inside an action (in a gateway
\* network call or in the poller's sleep), and so whenever it is interrupted
\* there, the files of the archive (content files and sidecars, with their
\* bytes and times) and its directories are exactly those of the moment the
\* action started.
C21_InterruptLeavesArchiveAsBefore ==
    (AtBlockingPoint \/ a_pc = "interrupted")
        => (fs = a_before.fs /\ dirs = a_before.dirs)

\* A crawl was interrupted in the poller's sleep, in a session whose earlier
\* actions saved a content file with a sidecar.
C21_Witness ==
    /\ a_pc = "interrupted"
    /\ a_op = "crawl"
    /\ p_pc = "sleep"
    /\ \E path \in DOMAIN fs : Exists(fs, SidecarOf(path))

\* ------------------------------------------------------ file naming: claims
\* A stored name without the counter the collision rule put into it.
WithoutCounter(name) ==
    SelectSeq(name, LAMBDA token : token \notin {CounterSuffix(n) : n \in 1..MaxOps})

\* The name the claim gives a saved file, before the collision rule.
NameWithExtension(filename, format_type) ==
    IF filename[Len(filename)] \in {".md", ".html", ".txt", ".json"}
    THEN filename
    ELSE filename \o <<CASE format_type = "markdown" -> ".md"
                         [] format_type = "html" -> ".html"
                         [] format_type = "json" -> ".json"
                         [] OTHER -> ".txt">>

\* C22: save appends an extension exactly when the filename does not end in
\* .md, .html, .txt or .json: .md for markdown, .html for html, .json for
\* json, .txt for any other content type; a filename that ends in one of the
\* four is kept as it is, whatever the content type. (The stored name is that
\* name, with a counter before the extension when the name was taken.)
C22_ExtensionAppendedWhenMissing ==
    [][\A payload \in NamingPayloads, save_dir \in SaveDirs, filename \in NamingFilenames :
        SaveDialog(payload, save_dir, filename, NoMetadata, "none") =>
            LET stored == hist'[Len(hist')].stored
            IN  /\ Exists(fs', stored)
                /\ stored.dir = save_dir
                /\ WithoutCounter(stored.name)
                        = NameWithExtension(filename, payload.format_type)]_vars

\* Saved so far: a.json holding markdown (kept), a name without extension
\* saved as text (a.txt), and a.MD saved as markdown (a.MD.md).
C22_Witness ==
    \E i, j, k \in DOMAIN hist :
        /\ hist[i].filename = <<"a", ".json">>
        /\ hist[i].format_type = "markdown"
        /\ hist[i].stored.name = <<"a", ".json">>
        /\ hist[j].filename = <<"a">>
        /\ hist[j].format_type = "text"
        /\ hist[j].stored.name = <<"a", ".txt">>
        /\ hist[k].filename = <<"a", ".MD">>
        /\ hist[k].stored.name = <<"a", ".MD", ".md">>

\* --------------------------------------------- metadata of a record: claims
\* What the listing shows as the metadata of the content file at path.
ListedMetadata(files_, path) ==
    LET entry == FileInfo(files_, path, "scrapes")
    IN  [has_metadata |-> entry.has_metadata, metadata |-> entry.metadata]

\* C23 as stated: each content file is listed with exactly the metadata
\* supplied when it was saved, and with none if none was supplied. So for
\* every save of a page (markdown or html, the name free of .meta.json): the
\* record just stored is listed with the description, tags, date and URL of
\* this save, or with no metadata when the user supplied none; and every
\* content file stored before is listed with the metadata it was listed with
\* before the save (a.md and a.html share or replace nothing).
C23_RecordsKeepTheirOwnMetadata ==
    [][\A payload \in StalePayloads, save_dir \in SaveDirs, filename \in SearchFilenames,
          metadata \in Metadatas :
        SaveDialog(payload, save_dir, filename, metadata, "none") =>
            LET stored == hist'[Len(hist')].stored
                shown == ListedMetadata(fs', stored)
            IN  /\ shown.has_metadata = HasMetadata(metadata)
                /\ HasMetadata(metadata)
                    => HoldsMetadata(shown.metadata, metadata, clock', payload.url)
                /\ \A path \in DOMAIN fs :
                    fs[path].bytes.doc.t # "sidecar"
                        => ListedMetadata(fs', path) = ListedMetadata(fs, path)]_vars

\* C24 as stated: a confirmed delete of a listed record r changes nothing
\* else: every other content file of the archive is still there with the
\* same bytes, and is listed with the same metadata as before the delete.
C24_DeleteChangesNothingElse ==
    [][\A file_num \in 1..Len(files), fault \in Faults :
        BrowseDelete(file_num, TRUE, fault) =>
            \A path \in (DOMAIN fs) \ {files[file_num].path} :
                fs[path].bytes.doc.t # "sidecar"
                    => /\ Exists(fs', path)
                       /\ fs'[path] = fs[path]
                       /\ ListedMetadata(fs', path) = ListedMetadata(fs, path)]_vars

\* ------------------------------------------- saves between deletes: claims
\* base_n.ext for a name base.ext.
Numbered(full, n) ==
    SubSeq(full, 1, Len(full) - 1) \o <<"_" \o ToString(n)>> \o <<full[Len(full)]>>

\* The path the claim gives a save into dir of the name full: the name
\* itself when unused, else base_n.ext for the smallest n >= 1 whose path is
\* unused.
SmallestUnused(dir, full) ==
    IF ~Exists(fs, Path(dir, full))
    THEN Path(dir, full)
    ELSE LET free == {n \in 1..(MaxOps + 1) : ~Exists(fs, Path(dir, Numbered(full, n)))}
         IN  Path(dir, Numbered(full, CHOOSE n \in free : \A o \in free : n <= o))

\* C25: in every state of a session that saves and deletes, a save that the
\* filesystem does not refuse stores its content at base.ext when that path
\* is unused, and otherwise at base_n.ext for the smallest n >= 1 whose path
\* is unused (a name freed by a delete is unused again); the path the save
\* returns is the path that now holds the content, and no other content file
\* is written.
C25_SaveTakesSmallestUnusedName ==
    [][\A payload \in Payloads, save_dir \in SaveDirs, filename \in Filenames,
          metadata \in Metadatas :
        SaveDialog(payload, save_dir, filename, metadata, "none") =>
            LET returned == hist'[Len(hist')].stored
                full == NameWithExtension(filename, payload.format_type)
            IN  /\ returned = SmallestUnused(save_dir, full)
                /\ ~Exists(fs, returned)
                /\ Exists(fs', returned)
                /\ fs'[returned].mtime = clock'
                /\ fs'[returned].bytes.doc.id = payload.data.id
                /\ \A path \in DOMAIN fs' :
                    (fs'[path].mtime = clock' /\ fs'[path].bytes.doc.t # "sidecar")
                        => path = returned]_vars

\* A save has just stored its content under a name that an earlier save had
\* used and a delete had freed.
C25_Witness ==
    /\ ndel >= 1
    /\ failed = {}
    /\ \E j, k \in DOMAIN hist :
        /\ j < k
        /\ k = Len(hist)
        /\ hist[j].stored = hist[k].stored
        /\ Exists(fs, hist[k].stored)
        /\ fs[hist[k].stored].mtime = clock

\* -------------------------------------------- listing of saved files: claims
\* The content files that saves stored in the directories of the categories
\* and that are still there as the saves wrote them.
StoredContentFiles(categories) ==
    {hist[k].stored : k \in {k \in DOMAIN hist :
        /\ hist[k].stored.dir \in {export_dirs[c] : c \in categories}
        /\ Exists(fs, hist[k].stored)
        /\ fs[hist[k].stored].bytes.doc.t # "sidecar"}}

\* C26 as stated: a listing of a category, and a listing of all categories,
\* holds every content file that a save stored in the category's directory
\* and that has not been deleted, whatever filename the user chose (a name
\* that ends in .meta.json included).
C26_EveryStoredFileIsListed ==
    [][\A choice \in BrowseChoices :
        Browse(choice) => StoredContentFiles(Browsed(choice)) \subseteq PathsOf(files')]_vars

\* --------------------------------------------------- settings update: claims
\* C27 as stated: a settings update is all-or-nothing. When it completes, the
\* client is built from the new endpoint and credential and export_dirs maps
\* every category to its subdirectory of the new archive root; when directory
\* creation fails during the update, api_url, api_key, exports_base_dir,
\* export_dirs and the client keep the values they had before; so in every
\* state the client targets the configured api_url with the configured key.
C27_SettingsUpdateAllOrNothing ==
    /\ [][\A new_api_url \in ApiUrls, new_api_key \in ApiKeys, new_exports_base \in Roots,
             fault \in SetupFaults :
            Settings(new_api_url, new_api_key, new_exports_base, fault) =>
                IF "makedirs" \in failed'
                THEN /\ api_url' = api_url
                     /\ api_key' = api_key
                     /\ exports_base_dir' = exports_base_dir
                     /\ export_dirs' = export_dirs
                     /\ client' = client
                ELSE /\ api_url' = new_api_url
                     /\ api_key' = new_api_key
                     /\ exports_base_dir' = new_exports_base
                     /\ client' = [api_url |-> new_api_url, api_key |-> new_api_key]
                     /\ \A c \in Categories :
                            export_dirs'[c] = join(new_exports_base, c)]_vars
    /\ [](client.api_url = api_url /\ client.api_key = api_key)

\* ------------------------------------------ JSON files of structured content
\* C28 as stated: a file that save writes with content type json from
\* structured content, a mapping or a list, is valid JSON: read back and
\* parsed, it gives a value equal to the one saved.
C28_StructuredContentSavedAsJson ==
    (j_pc = "viewed" /\ j_format = "json" /\ j_data.k \in {"dict", "list"})
        => /\ j_parsed.ok
           /\ JsonEqual(j_parsed.value, j_data)

\* ------------------------------------------------- concurrent saves: claims
\* C29: with the existence check and the write of a save executed as one
\* atomic step (the sessions hold a lock from the check to the write), the
\* saves that returned hold pairwise distinct paths, each file still holds
\* what its save wrote, and the directory holds as many files as saves were
\* made: no state with fewer files than saves is reachable. Without the lock
\* such a state is reachable (C29_Witness).
C29_AtomicSavesNeverCollide ==
    x_locked =>
        /\ \A j, k \in DOMAIN hist : j # k => hist[j].stored # hist[k].stored
        /\ \A k \in DOMAIN hist :
            Exists(fs, hist[k].stored) /\ fs[hist[k].stored].mtime = k
        /\ Cardinality(DOMAIN fs) = Len(hist)

\* Without a lock: two sessions interleaved their saves of the same filename,
\* both resolved to the same path, both saves returned, and the directory
\* holds one file, the one written last.
C29_Witness ==
    /\ ~x_locked
    /\ \A s \in Sessions : x_pc[s] = "idle"
    /\ Len(hist) = 2
    /\ hist[1].filename = hist[2].filename
    /\ hist[1].stored = hist[2].stored
    /\ x_save[1].full_path = x_save[2].full_path
    /\ Cardinality(DOMAIN fs) = 1
    /\ fs[hist[2].stored].mtime = 2

=============================================================================
